---- MODULE Spec2Model ----
(***************************************************************************)
(* Model of the bytecode definite-assignment pass of library/_compiler.py: *)
(* code_to_ops, create_blocks and optimize_load_fast, run on bounded code  *)
(* objects.  Bytecode is a flat sequence of bytes, two per code unit       *)
(* (opcode, operand); opcodes are written by name.                         *)
(***************************************************************************)
EXTENDS Integers, Sequences, FiniteSets, TLC

\* ------------------------------------------------------------ constants

CODEUNIT_SIZE == 2

\* first operand value that no longer fits one byte (the bail-out test)
OperandLimit == 256

\* longest enumerated instruction stream, and the number of local slots
\* (len(co_varnames)) of the enumerated code objects
MaxLen == 3
NumLocals == 2

\* ------------------------------------------------------------ integers as bitsets

Pow2(n) == 2 ^ n

\* x & (1 << s) is non-zero
HasBit(x, s) == (x \div Pow2(s)) % 2 = 1

\* x | (1 << s)
SetBit(x, s) == IF HasBit(x, s) THEN x ELSE x + Pow2(s)

\* x & ~(1 << s)
ClearBit(x, s) == IF HasBit(x, s) THEN x - Pow2(s) ELSE x

RECURSIVE BitAnd(_, _)
BitAnd(a, b) ==
    IF a = 0 \/ b = 0 THEN 0
    ELSE (a % 2) * (b % 2) + 2 * BitAnd(a \div 2, b \div 2)

\* every bit of a is a bit of b
BitSubset(a, b) == BitAnd(a, b) = a

\* ------------------------------------------------------------ opcode tables

\* opcode.hasjabs of the opcode module: the opcodes whose operand is an
\* absolute byte offset
hasjabs ==
    {"JUMP_ABSOLUTE", "POP_JUMP_IF_FALSE", "POP_JUMP_IF_TRUE",
     "JUMP_IF_FALSE_OR_POP", "JUMP_IF_TRUE_OR_POP"}

\* ------------------------------------------------------------ BytecodeOp

BytecodeOp(op, arg, idx) == [op |-> op, arg |-> arg, idx |-> idx]

is_branch(instr) ==
    instr.op \in {"FOR_ITER", "JUMP_ABSOLUTE", "JUMP_FORWARD",
                  "JUMP_IF_FALSE_OR_POP", "JUMP_IF_TRUE_OR_POP",
                  "POP_JUMP_IF_FALSE", "POP_JUMP_IF_TRUE"}

is_unconditional_branch(instr) == instr.op \in {"JUMP_ABSOLUTE", "JUMP_FORWARD"}

is_relative_branch(instr) == instr.op \in {"FOR_ITER", "JUMP_FORWARD"}

is_other_block_terminator(instr) == instr.op \in {"RETURN_VALUE", "RAISE_VARARGS"}

is_terminator(instr) == is_branch(instr) \/ is_other_block_terminator(instr)

next_instr_idx(instr) == instr.idx + 1

jump_target_idx(instr) ==
    IF is_relative_branch(instr)
    THEN next_instr_idx(instr) + instr.arg \div CODEUNIT_SIZE
    ELSE instr.arg \div CODEUNIT_SIZE

\* successors of a conditional branch with the target in front
successor_indices_target_first(instr) ==
    IF is_branch(instr)
    THEN IF is_unconditional_branch(instr)
         THEN <<jump_target_idx(instr)>>
         ELSE <<jump_target_idx(instr), next_instr_idx(instr)>>
    ELSE IF is_other_block_terminator(instr)
         THEN <<>>
         ELSE <<next_instr_idx(instr)>>

successor_indices(instr) ==
    IF is_branch(instr)
    THEN IF is_unconditional_branch(instr)
         THEN <<jump_target_idx(instr)>>
         ELSE <<next_instr_idx(instr), jump_target_idx(instr)>>
    ELSE IF is_other_block_terminator(instr)
         THEN <<>>
         ELSE <<next_instr_idx(instr)>>

\* ------------------------------------------------------------ code_to_ops

\* the instruction at index idx (indices count from 0, as in the source)
At(bytecode, idx) == bytecode[idx + 1]

code_to_ops(code) ==
    LET bytecode == code.co_code
        num_instrs == Len(bytecode) \div CODEUNIT_SIZE
    IN  [k \in 1..num_instrs |->
            BytecodeOp(bytecode[CODEUNIT_SIZE * (k - 1) + 1],
                       bytecode[CODEUNIT_SIZE * (k - 1) + 2],
                       k - 1)]

\* ------------------------------------------------------------ create_blocks

\* sorted(s) for a set of integers: the ascending sequence of its elements
RECURSIVE sorted(_)
sorted(s) ==
    IF s = {} THEN <<>>
    ELSE LET m == CHOOSE x \in s : \A y \in s : x <= y
         IN  <<m>> \o sorted(s \ {m})

\* block starts without the bounds test behind a return or raise
block_starts_unbounded(instrs) ==
    LET num_instrs == Len(instrs)
    IN  {0}
        \cup UNION {{next_instr_idx(instrs[k]), jump_target_idx(instrs[k])} :
                        k \in {j \in 1..num_instrs : is_branch(instrs[j])}}
        \cup {next_instr_idx(instrs[k]) :
                  k \in {j \in 1..num_instrs :
                            /\ ~is_branch(instrs[j])
                            /\ is_other_block_terminator(instrs[j])}}

block_starts(instrs) ==
    LET num_instrs == Len(instrs)
    IN  {0}
        \cup UNION {{next_instr_idx(instrs[k]), jump_target_idx(instrs[k])} :
                        k \in {j \in 1..num_instrs : is_branch(instrs[j])}}
        \cup {next_instr_idx(instrs[k]) :
                  k \in {j \in 1..num_instrs :
                            /\ ~is_branch(instrs[j])
                            /\ is_other_block_terminator(instrs[j])
                            /\ next_instr_idx(instrs[j]) < num_instrs}}

\* BytecodeSlice.last(): bytecode[end - 1]
last(instrs, slice) == At(instrs, slice.end - 1)

\* the indices iterated by BytecodeSlice.__iter__: bytecode[start:end]
SliceIndices(instrs, slice) ==
    {i \in slice.start .. (slice.end - 1) : i < Len(instrs)}

\* the sequence of blocks in id order; succs holds block ids in the order of
\* successor_indices, preds the ids of the blocks that list this one
create_blocks(instrs) ==
    LET num_instrs == Len(instrs)
        starts == block_starts(instrs)
        num_blocks == Cardinality(starts)
        block_starts_ordered == sorted(starts)
        slice(i) ==
            [start |-> block_starts_ordered[i + 1],
             end   |-> IF i + 1 < num_blocks
                       THEN block_starts_ordered[i + 2]
                       ELSE num_instrs]
        id_of(idx) == CHOOSE i \in 0..(num_blocks - 1) :
                          block_starts_ordered[i + 1] = idx
        keep(t) == SelectSeq(t, LAMBDA idx : idx < num_instrs)
        succs_of(i) ==
            LET t == keep(successor_indices(last(instrs, slice(i))))
            IN  [k \in 1..Len(t) |-> id_of(t[k])]
        in_succs(i, j) == \E k \in 1..Len(succs_of(j)) : succs_of(j)[k] = i
    IN  [k \in 1..num_blocks |->
            [id    |-> k - 1,
             start |-> slice(k - 1).start,
             end   |-> slice(k - 1).end,
             succs |-> succs_of(k - 1),
             preds |-> {j \in 0..(num_blocks - 1) : in_succs(k - 1, j)}]]

\* BlockMap.idx_to_block: start index -> block
idx_to_block(blocks) ==
    [idx \in {blocks[k].start : k \in 1..Len(blocks)} |->
        CHOOSE b \in {blocks[k] : k \in 1..Len(blocks)} : b.start = idx]

\* ------------------------------------------------------------ optimize_load_fast

\* some code unit's opcode is EXTENDED_ARG (the scan over co_code)
has_extended_arg(code) ==
    \E i \in 0..(Len(code.co_code) - 1) :
        /\ i % CODEUNIT_SIZE = 0
        /\ code.co_code[i + 1] = "EXTENDED_ARG"

\* preds[succ.id].add(block.id) for every block and every successor
block_preds(blocks) ==
    [i \in 0..(Len(blocks) - 1) |->
        {blocks[k].id : k \in {j \in 1..Len(blocks) :
            \E m \in 1..Len(blocks[j].succs) : blocks[j].succs[m] = i}}]

num_locals(code) == Len(code.co_varnames)

AllAssigned(code) == Pow2(num_locals(code)) - 1

bool(b) == IF b THEN 1 ELSE 0

argcount(code) ==
    code.co_argcount
    + code.co_kwonlyargcount
    + bool("CO_VARARGS" \in code.co_flags)
    + bool("CO_VARKEYWORDS" \in code.co_flags)

\* an entry state in which no slot is assigned
NoneAssigned(code) == 0

ArgsAssigned(code) == Pow2(argcount(code)) - 1

\* meet(args): AllAssigned and-ed with every argument
RECURSIVE meet_from(_, _)
meet_from(acc, args) ==
    IF args = {} THEN acc
    ELSE LET arg == CHOOSE x \in args : TRUE
         IN  meet_from(BitAnd(acc, arg), args \ {arg})

\* a meet that looks at one predecessor only
meet_one(all, args) ==
    IF args = {} THEN all ELSE BitAnd(all, CHOOSE x \in args : TRUE)

meet(all, args) == meet_from(all, args)

\* the value currently_alive starts with in process_one_block
incoming_alive(c, prds, lo, bid) ==
    IF Cardinality(prds[bid]) = 0
    THEN ArgsAssigned(c)
    ELSE meet(AllAssigned(c), {lo[pred] : pred \in prds[bid]})

\* a loop body that tracks no assignment while it rewrites
process_instr_loads_only(c, modify, idx, acc) ==
    LET instr == At(acc.ops, idx)
    IN  IF modify
        THEN IF instr.op = "LOAD_FAST" /\ HasBit(acc.alive, instr.arg)
             THEN [acc EXCEPT !.ops[idx + 1].op = "LOAD_FAST_UNCHECKED"]
             ELSE IF instr.op = "LOAD_FAST" /\ instr.arg >= argcount(c)
                  THEN [acc EXCEPT !.cond = @ \cup {instr.arg}]
                  ELSE acc
        ELSE IF instr.op = "STORE_FAST"
        THEN [acc EXCEPT !.alive = SetBit(@, instr.arg)]
        ELSE IF instr.op = "DELETE_FAST"
        THEN [acc EXCEPT !.alive = ClearBit(@, instr.arg)]
        ELSE acc

\* a loop body in which DELETE_FAST leaves currently_alive alone
process_instr_keep(c, modify, idx, acc) ==
    LET instr == At(acc.ops, idx)
    IN  IF modify /\ instr.op = "LOAD_FAST"
        THEN IF HasBit(acc.alive, instr.arg)
             THEN [acc EXCEPT !.ops[idx + 1].op = "LOAD_FAST_UNCHECKED"]
             ELSE IF instr.arg >= argcount(c)
                  THEN [acc EXCEPT !.cond = @ \cup {instr.arg}]
                  ELSE acc
        ELSE IF instr.op = "STORE_FAST"
        THEN [acc EXCEPT !.alive = SetBit(@, instr.arg)]
        ELSE acc

\* one iteration of the loop over block.instrs(); acc holds currently_alive,
\* the instruction list and conditionally_assigned
process_instr(c, modify, idx, acc) ==
    LET instr == At(acc.ops, idx)
    IN  IF modify /\ instr.op = "LOAD_FAST"
        THEN IF HasBit(acc.alive, instr.arg)
             THEN [acc EXCEPT !.ops[idx + 1].op = "LOAD_FAST_UNCHECKED"]
             ELSE IF instr.arg >= argcount(c)
                  THEN [acc EXCEPT !.cond = @ \cup {instr.arg}]
                  ELSE acc
        ELSE IF instr.op = "STORE_FAST"
        THEN [acc EXCEPT !.alive = SetBit(@, instr.arg)]
        ELSE IF instr.op = "DELETE_FAST"
        THEN [acc EXCEPT !.alive = ClearBit(@, instr.arg)]
        ELSE acc

\* the loop over block.instrs() for the indices idx..stop-1, in order (the
\* range is halved so that long blocks do not nest deeply)
RECURSIVE process_instrs(_, _, _, _, _)
process_instrs(c, modify, idx, stop, acc) ==
    IF idx >= stop THEN acc
    ELSE IF idx + 1 = stop THEN process_instr(c, modify, idx, acc)
    ELSE LET mid == (idx + stop) \div 2
             first == process_instrs(c, modify, idx, mid, acc)
         IN  IF first.alive >= 0    \* the first half is evaluated first
             THEN process_instrs(c, modify, mid, stop, first)
             ELSE first

Min(a, b) == IF a <= b THEN a ELSE b

\* a process_one_block that reports a change on every call
process_one_block_always(c, prds, block, modify, instrs, lo, cond) ==
    LET bid == block.id
        start == [alive |-> incoming_alive(c, prds, lo, bid),
                  ops   |-> instrs,
                  cond  |-> cond]
        acc == process_instrs(c, modify, block.start,
                              Min(block.end, Len(instrs)), start)
    IN  [ops |-> acc.ops,
         live_out |-> [lo EXCEPT ![bid] = acc.alive],
         cond |-> acc.cond,
         ret |-> TRUE]

\* a process_one_block that stores the new exit state and reports no change
process_one_block_unreported(c, prds, block, modify, instrs, lo, cond) ==
    LET bid == block.id
        start == [alive |-> incoming_alive(c, prds, lo, bid),
                  ops   |-> instrs,
                  cond  |-> cond]
        acc == process_instrs(c, modify, block.start,
                              Min(block.end, Len(instrs)), start)
    IN  [ops |-> acc.ops,
         live_out |-> [lo EXCEPT ![bid] = acc.alive],
         cond |-> acc.cond,
         ret |-> FALSE]

\* process_one_block(block, modify): the new instruction list, live_out and
\* conditionally_assigned, and the returned flag
process_one_block(c, prds, block, modify, instrs, lo, cond) ==
    LET bid == block.id
        start == [alive |-> incoming_alive(c, prds, lo, bid),
                  ops   |-> instrs,
                  cond  |-> cond]
        acc == process_instrs(c, modify, block.start,
                              Min(block.end, Len(instrs)), start)
    IN  IF acc.alive = lo[bid]
        THEN [ops |-> acc.ops, live_out |-> lo, cond |-> acc.cond, ret |-> FALSE]
        ELSE [ops |-> acc.ops,
              live_out |-> [lo EXCEPT ![bid] = acc.alive],
              cond |-> acc.cond,
              ret |-> TRUE]

\* a shift by the number of inserted instructions instead of their size
shifted_arg_units(instr, cond) ==
    IF cond # {} /\ instr.op \in hasjabs
    THEN instr.arg + Cardinality(cond)
    ELSE instr.arg

\* a shift of the operand of every branch, relative ones included
shifted_arg_every_branch(instr, cond) ==
    IF cond # {} /\ is_branch(instr)
    THEN instr.arg + Cardinality(cond) * CODEUNIT_SIZE
    ELSE instr.arg

\* the operand written for one instruction by the output loop
shifted_arg(instr, cond) ==
    IF cond # {} /\ instr.op \in hasjabs
    THEN instr.arg + Cardinality(cond) * CODEUNIT_SIZE
    ELSE instr.arg

\* the synthesized prelude: one DELETE_FAST_UNCHECKED per name index, sorted
RECURSIVE prelude_bytes(_)
prelude_bytes(names) ==
    IF names = <<>> THEN <<>>
    ELSE <<"DELETE_FAST_UNCHECKED", Head(names)>> \o prelude_bytes(Tail(names))

\* a prelude in descending order of the name indices
prelude_descending(cond) ==
    LET names == sorted(cond)
    IN  prelude_bytes([k \in 1..Len(names) |-> names[Len(names) + 1 - k]])

prelude(cond) == prelude_bytes(sorted(cond))

\* one iteration of the output loop: bail is TRUE once an operand reached
\* OperandLimit (the function has returned), bytes is optimized_bytecode, ops
\* the instruction list with the operands changed so far
emit_instr(idx, cond, acc) ==
    IF acc.bail THEN acc
    ELSE LET instr == At(acc.ops, idx)
             arg == shifted_arg(instr, cond)
             instrs2 == [acc.ops EXCEPT ![idx + 1].arg = arg]
         IN  IF arg >= OperandLimit
             THEN [bail |-> TRUE, bytes |-> acc.bytes \o <<instr.op>>, ops |-> instrs2]
             ELSE [bail |-> FALSE, bytes |-> acc.bytes \o <<instr.op, arg>>,
                   ops |-> instrs2]

\* the output loop for the indices idx..stop-1, in order
RECURSIVE emit_from(_, _, _, _)
emit_from(idx, stop, cond, acc) ==
    IF idx >= stop THEN acc
    ELSE IF idx + 1 = stop THEN emit_instr(idx, cond, acc)
    ELSE LET mid == (idx + stop) \div 2
             first == emit_from(idx, mid, cond, acc)
         IN  IF first.bail          \* the function has returned
             THEN first
             ELSE emit_from(mid, stop, cond, first)

emit(instrs, cond) ==
    emit_from(0, Len(instrs), cond,
              [bail |-> FALSE, bytes |-> prelude(cond), ops |-> instrs])

\* a return of the bytes written so far also when the output loop bailed out
emit_result_partial(c, out) == [c EXCEPT !.co_code = out.bytes]

\* what optimize_load_fast returns after the output loop
emit_result(c, out) ==
    IF out.bail THEN c ELSE [c EXCEPT !.co_code = out.bytes]

\* a live_out that starts with no slot assigned
initial_live_out_empty(c, n) == [i \in 0..(n - 1) |-> 0]

\* line 440: live_out = [AllAssigned] * num_blocks
initial_live_out(c, n) == [i \in 0..(n - 1) |-> AllAssigned(c)]

\* lines 483-484 and 486-487: the for loop over the blocks from id k on, in
\* the order of the block map; st holds ops, live_out, cond and changed
RECURSIVE for_blocks(_, _, _, _, _, _)
for_blocks(c, prds, bs, modify, k, st) ==
    IF k >= Len(bs) THEN st
    ELSE LET r == process_one_block(c, prds, bs[k + 1], modify,
                                    st.ops, st.live_out, st.cond)
         IN  for_blocks(c, prds, bs, modify, k + 1,
                        [ops |-> r.ops, live_out |-> r.live_out, cond |-> r.cond,
                         changed |-> (st.changed \/ r.ret), passes |-> st.passes])

\* lines 480-484: the while loop, from the state st the last pass left
RECURSIVE while_changed(_, _, _, _)
while_changed(c, prds, bs, st) ==
    IF ~st.changed THEN st
    ELSE while_changed(c, prds, bs,
                       for_blocks(c, prds, bs, FALSE, 0,
                                  [st EXCEPT !.changed = FALSE,
                                             !.passes = @ + 1]))

\* lines 429-487 for a code object without EXTENDED_ARG: the state after the
\* while loop (converged) and after the final pass (modified)
analysis(c) ==
    LET instrs == code_to_ops(c)
        bs == create_blocks(instrs)
        prds == block_preds(bs)
        converged == while_changed(c, prds, bs,
                         [ops |-> instrs,
                          live_out |-> initial_live_out(c, Len(bs)),
                          cond |-> {}, changed |-> TRUE, passes |-> 0])
    IN  [converged |-> converged,
         modified |-> for_blocks(c, prds, bs, TRUE, 0, converged)]

\* ------------------------------------------------------------ inputs

\* co_names is empty where no global name matters to the pass or to a property
Code(bytes, nargs, nkwonly, flags, varnames) ==
    [co_code |-> bytes, co_argcount |-> nargs, co_kwonlyargcount |-> nkwonly,
     co_flags |-> flags, co_varnames |-> varnames, co_names |-> <<>>]

WithNames(c, names) == [c EXCEPT !.co_names = names]

\* co_code of a sequence of <<opcode, operand>> pairs
Assemble(pairs) ==
    [k \in 1..(CODEUNIT_SIZE * Len(pairs)) |->
        IF k % CODEUNIT_SIZE = 1
        THEN pairs[(k + 1) \div CODEUNIT_SIZE][1]
        ELSE pairs[k \div CODEUNIT_SIZE][2]]

Slots == 0..(NumLocals - 1)

\* the instructions an enumerated stream of n instructions may hold
Choices(n) ==
    ({"LOAD_FAST", "STORE_FAST", "DELETE_FAST"} \X Slots)
    \cup ({"JUMP_ABSOLUTE", "POP_JUMP_IF_FALSE"}
              \X {CODEUNIT_SIZE * t : t \in 0..(n - 1)})
    \cup ({"JUMP_FORWARD", "FOR_ITER"}
              \X {CODEUNIT_SIZE * r : r \in 0..(n - 2)})
    \cup {<<"LOAD_CONST", 0>>, <<"EXTENDED_ARG", 0>>,
          <<"RETURN_VALUE", 0>>, <<"RAISE_VARARGS", 1>>}

\* well-formed streams: every jump lands on an instruction of the stream and
\* the last instruction does not fall through
WellFormed(pairs) ==
    LET n == Len(pairs)
        instr(k) == BytecodeOp(pairs[k][1], pairs[k][2], k - 1)
    IN  /\ \A k \in 1..n :
              is_branch(instr(k)) => jump_target_idx(instr(k)) < n
        /\ is_terminator(instr(n))

ShortStreams ==
    UNION {{p \in [1..n -> Choices(n)] : WellFormed(p)} : n \in 1..MaxLen}

\* enumerated code objects: NumLocals locals, the first nargs of them
\* positional parameters
ShortInputs ==
    {Code(Assemble(p), nargs, 0, {}, [k \in 1..NumLocals |-> k - 1]) :
        p \in ShortStreams, nargs \in 0..NumLocals}

\* the functions compiled by DefiniteAsssignmentAnalysisTests, as the code
\* generator hands them to the pass (slot 0 is the parameter)
TestStreams ==
    {\* return x
     <<<<"LOAD_FAST", 0>>, <<"RETURN_VALUE", 0>>>>,
     \* del x; return x
     <<<<"DELETE_FAST", 0>>, <<"LOAD_FAST", 0>>, <<"RETURN_VALUE", 0>>>>,
     \* y = x; del x; return y
     <<<<"LOAD_FAST", 0>>, <<"STORE_FAST", 1>>, <<"DELETE_FAST", 0>>,
       <<"LOAD_FAST", 1>>, <<"RETURN_VALUE", 0>>>>,
     \* if cond: x = 3; return x
     <<<<"LOAD_FAST", 0>>, <<"POP_JUMP_IF_FALSE", 8>>, <<"LOAD_CONST", 1>>,
       <<"STORE_FAST", 1>>, <<"LOAD_FAST", 1>>, <<"RETURN_VALUE", 0>>>>,
     \* if cond: x = 3 else: pass; return x
     <<<<"LOAD_FAST", 0>>, <<"POP_JUMP_IF_FALSE", 10>>, <<"LOAD_CONST", 1>>,
       <<"STORE_FAST", 1>>, <<"JUMP_FORWARD", 0>>, <<"LOAD_FAST", 1>>,
       <<"RETURN_VALUE", 0>>>>,
     \* if cond: x = 3 else: x = 4; return x
     <<<<"LOAD_FAST", 0>>, <<"POP_JUMP_IF_FALSE", 10>>, <<"LOAD_CONST", 1>>,
       <<"STORE_FAST", 1>>, <<"JUMP_FORWARD", 4>>, <<"LOAD_CONST", 2>>,
       <<"STORE_FAST", 1>>, <<"LOAD_FAST", 1>>, <<"RETURN_VALUE", 0>>>>,
     \* while True: print(cond)
     <<<<"LOAD_GLOBAL", 0>>, <<"LOAD_FAST", 0>>, <<"CALL_FUNCTION", 1>>,
       <<"POP_TOP", 0>>, <<"JUMP_ABSOLUTE", 0>>, <<"LOAD_CONST", 0>>,
       <<"RETURN_VALUE", 0>>>>,
     \* while True: 1 + cond; del cond
     <<<<"LOAD_CONST", 1>>, <<"LOAD_FAST", 0>>, <<"BINARY_ADD", 0>>,
       <<"POP_TOP", 0>>, <<"DELETE_FAST", 0>>, <<"JUMP_ABSOLUTE", 0>>,
       <<"LOAD_CONST", 0>>, <<"RETURN_VALUE", 0>>>>,
     \* for i in range(n): pass; return i
     <<<<"LOAD_GLOBAL", 0>>, <<"LOAD_FAST", 0>>, <<"CALL_FUNCTION", 1>>,
       <<"GET_ITER", 0>>, <<"FOR_ITER", 4>>, <<"STORE_FAST", 1>>,
       <<"JUMP_ABSOLUTE", 8>>, <<"LOAD_FAST", 1>>, <<"RETURN_VALUE", 0>>>>}

\* def foo(x), def foo(*, x), def foo(*x), def foo(**x), and def foo()
\* whose locals are all plain locals
TestSignatures ==
    {[nargs |-> 1, nkwonly |-> 0, flags |-> {}],
     [nargs |-> 0, nkwonly |-> 1, flags |-> {}],
     [nargs |-> 0, nkwonly |-> 0, flags |-> {"CO_VARARGS"}],
     [nargs |-> 0, nkwonly |-> 0, flags |-> {"CO_VARKEYWORDS"}],
     [nargs |-> 0, nkwonly |-> 0, flags |-> {}],
     [nargs |-> 1, nkwonly |-> 0, flags |-> {"CO_VARARGS"}]}

TestInputs ==
    {Code(Assemble(p), sig.nargs, sig.nkwonly, sig.flags, <<0, 1>>) :
        p \in TestStreams, sig \in TestSignatures}

\* streams long enough for an absolute jump operand to reach OperandLimit once
\* it is shifted: three leading instructions, padding, and a final return at
\* index OperandLimit \div CODEUNIT_SIZE - 1
LongLen == OperandLimit \div CODEUNIT_SIZE

LongStream(head) ==
    [k \in 1..LongLen |->
        IF k <= Len(head) THEN head[k]
        ELSE IF k = LongLen THEN <<"RETURN_VALUE", 0>>
        ELSE <<"LOAD_CONST", 0>>]

LongHeads ==
    {<<a, b, j>> :
        a \in {<<"LOAD_FAST", 0>>, <<"STORE_FAST", 0>>},
        b \in {<<"LOAD_FAST", 1>>, <<"STORE_FAST", 1>>},
        j \in {<<"POP_JUMP_IF_FALSE", OperandLimit - CODEUNIT_SIZE>>,
               <<"POP_JUMP_IF_FALSE", OperandLimit - 2 * CODEUNIT_SIZE>>,
               <<"JUMP_ABSOLUTE", OperandLimit - CODEUNIT_SIZE>>,
               <<"FOR_ITER", OperandLimit - 4 * CODEUNIT_SIZE>>}}

LongInputs ==
    {Code(Assemble(LongStream(h)), nargs, 0, {}, <<0, 1>>) :
        h \in LongHeads, nargs \in 0..2}

\* functions that call locals() (co_names[0]):
\*   def foo(x): y = locals(); return x
\*   def foo(): locals(); return x      (x never assigned)
\*   def foo(): return locals()
LocalsStreams ==
    {<<<<"LOAD_GLOBAL", 0>>, <<"CALL_FUNCTION", 0>>, <<"STORE_FAST", 1>>,
       <<"LOAD_FAST", 0>>, <<"RETURN_VALUE", 0>>>>,
     <<<<"LOAD_GLOBAL", 0>>, <<"CALL_FUNCTION", 0>>, <<"POP_TOP", 0>>,
       <<"LOAD_FAST", 0>>, <<"RETURN_VALUE", 0>>>>,
     <<<<"LOAD_GLOBAL", 0>>, <<"CALL_FUNCTION", 0>>, <<"RETURN_VALUE", 0>>>>}

LocalsInputs ==
    {WithNames(Code(Assemble(p), nargs, 0, {}, <<0, 1>>), <<"locals">>) :
        p \in LocalsStreams, nargs \in 0..1}

Inputs == ShortInputs \cup TestInputs \cup LongInputs \cup LocalsInputs

\* ------------------------------------------------------------ Python values
\* Strings are sequences of one-character strings.  A value of the evaluated
\* program is an int, a str or a tuple; a raised exception is a result that
\* is not ok.

PyInt(n) == [t |-> "int", i |-> n, s |-> <<>>, items |-> <<>>]
PyStr(chars) == [t |-> "str", i |-> 0, s |-> chars, items |-> <<>>]
PyTuple(elems) == [t |-> "tuple", i |-> 0, s |-> <<>>, items |-> elems]

Returns(v) == [ok |-> TRUE, v |-> v]
Raises == [ok |-> FALSE, v |-> PyInt(0)]

DigitChars ==
    <<"0", "1", "2", "3", "4", "5", "6", "7", "8", "9",
      "a", "b", "c", "d", "e", "f">>
UpperDigitChars ==
    <<"0", "1", "2", "3", "4", "5", "6", "7", "8", "9",
      "A", "B", "C", "D", "E", "F">>
DecimalDigits == {DigitChars[k] : k \in 1..10}

DigitValue(ch) == (CHOOSE k \in 1..10 : DigitChars[k] = ch) - 1

Abs(n) == IF n < 0 THEN -n ELSE n

\* the digits of a natural number in a base, most significant first
RECURSIVE Digits(_, _, _)
Digits(n, base, chars) ==
    IF n < base THEN <<chars[n + 1]>>
    ELSE Digits(n \div base, base, chars) \o <<chars[(n % base) + 1]>>

Repeat(ch, k) == [j \in 1..(IF k > 0 THEN k ELSE 0) |-> ch]

\* str(v), repr(v) and ascii(v) of an int or of a str without quotes
str(v) ==
    IF v.t = "int"
    THEN (IF v.i < 0 THEN <<"-">> ELSE <<>>) \o Digits(Abs(v.i), 10, DigitChars)
    ELSE v.s

repr(v) == IF v.t = "str" THEN <<"'">> \o v.s \o <<"'">> ELSE str(v)

\* right alignment of a text in a field, as "%5s" and format(s, ">5") do it
AlignRight(text, fill, width) == Repeat(fill, width - Len(text)) \o text

\* an integer in a field: the sign, then zeros or the spaces before the sign
FormatInt(n, base, chars, zero, width) ==
    LET sign == IF n < 0 THEN <<"-">> ELSE <<>>
        digits == Digits(Abs(n), base, chars)
    IN  IF zero
        THEN sign \o Repeat("0", width - Len(sign) - Len(digits)) \o digits
        ELSE AlignRight(sign \o digits, " ", width)

IntBase(ch) == IF ch = "o" THEN 8 ELSE IF ch \in {"x", "X"} THEN 16 ELSE 10
IntChars(ch) == IF ch = "X" THEN UpperDigitChars ELSE DigitChars

\* the value of a run of decimal digits
RECURSIVE ParseWidth(_)
ParseWidth(chars) ==
    IF chars = <<>> THEN 0
    ELSE 10 * ParseWidth(SubSeq(chars, 1, Len(chars) - 1))
         + DigitValue(chars[Len(chars)])

\* the flags, the width and the position of the conversion character that
\* begin at a (one-based) position; conv is 0 past the end of the string
RECURSIVE SkipChars(_, _, _)
SkipChars(fs, i, set) ==
    IF i <= Len(fs) /\ fs[i] \in set THEN SkipChars(fs, i + 1, set) ELSE i

ParseSpecifier(fs, i, flags) ==
    LET w == SkipChars(fs, i, flags)
        c == SkipChars(fs, w, DecimalDigits)
    IN  [zero |-> \E k \in i..(w - 1) : fs[k] = "0",
         left |-> \E k \in i..(w - 1) : fs[k] = "-",
         has_width |-> c > w,
         width |-> ParseWidth(SubSeq(fs, w, c - 1)),
         conv |-> IF c <= Len(fs) THEN c ELSE 0]

\* a text in a field of a "%" specifier: "-" puts the padding behind it
Justify(text, left, width) ==
    IF left THEN text \o Repeat(" ", width - Len(text))
    ELSE AlignRight(text, " ", width)

\* str.__mod__: printf-style formatting of the sequence of arguments args;
\* the result is the text, or not ok for ValueError and TypeError.  A "%"
\* that follows flags or a width is an unsupported format character.
RECURSIVE mod_from(_, _, _, _, _)
mod_from(fs, args, i, argidx, out) ==
    IF i > Len(fs)
    THEN IF argidx <= Len(args) THEN Raises ELSE Returns(PyStr(out))
    ELSE IF fs[i] # "%" THEN mod_from(fs, args, i + 1, argidx, out \o <<fs[i]>>)
    ELSE IF i + 1 > Len(fs) THEN Raises
    ELSE IF fs[i + 1] = "%" THEN mod_from(fs, args, i + 2, argidx, out \o <<"%">>)
    ELSE IF fs[i + 1] = "(" THEN Raises
    ELSE
        LET p == ParseSpecifier(fs, i + 1, {"0", "-"})
            ch == fs[p.conv]
            arg == args[argidx]
        IN  IF p.conv = 0 THEN Raises
            ELSE IF argidx > Len(args) THEN Raises
            ELSE IF ch \in {"s", "r", "a"}
            THEN mod_from(fs, args, p.conv + 1, argidx + 1,
                          out \o Justify(IF ch = "s" THEN str(arg) ELSE repr(arg),
                                         p.left, p.width))
            ELSE IF ch \in {"d", "i", "u", "x", "X", "o"}
            THEN IF arg.t # "int" THEN Raises
                 ELSE mod_from(fs, args, p.conv + 1, argidx + 1,
                               out \o IF p.left
                                      THEN Justify(FormatInt(arg.i, IntBase(ch),
                                                             IntChars(ch), FALSE, 0),
                                                   TRUE, p.width)
                                      ELSE FormatInt(arg.i, IntBase(ch), IntChars(ch),
                                                     p.zero, p.width))
            ELSE Raises

str_mod(fs, r) ==
    mod_from(fs, IF r.t = "tuple" THEN r.items ELSE <<r>>, 1, 1, <<>>)

\* format(v, spec) for the specs "[>][0...][width][x|X|o]"
format(v, spec) ==
    LET a == IF spec # <<>> /\ spec[1] = ">" THEN 2 ELSE 1
        p == ParseSpecifier(spec, a, {"0"})
        ty == IF p.conv = 0 THEN "" ELSE spec[p.conv]
    IN  IF p.conv # 0 /\ p.conv # Len(spec) THEN Raises
        ELSE IF v.t = "str"
        THEN IF ty # "" /\ ty # "s" THEN Raises
             ELSE IF a = 2
             THEN Returns(PyStr(AlignRight(v.s, IF p.zero THEN "0" ELSE " ", p.width)))
             ELSE Returns(PyStr(v.s \o Repeat(IF p.zero THEN "0" ELSE " ",
                                              p.width - Len(v.s))))
        ELSE IF v.t = "int"
        THEN IF ty \notin {"", "d", "x", "X", "o"} THEN Raises
             ELSE IF a = 2
             THEN Returns(PyStr(AlignRight(
                     FormatInt(v.i, IntBase(ty), IntChars(ty), FALSE, 0),
                     IF p.zero THEN "0" ELSE " ", p.width)))
             ELSE Returns(PyStr(FormatInt(v.i, IntBase(ty), IntChars(ty),
                                          p.zero, p.width)))
        ELSE Raises

\* the helper methods of str that the rewritten expression calls
_mod_check_single_arg(v) ==
    IF v.t # "tuple" THEN Returns(PyTuple(<<v>>))
    ELSE IF Len(v.items) = 1 THEN Returns(v)
    ELSE Raises

_mod_convert_number_int(v) == IF v.t = "int" THEN Returns(v) ELSE Raises

_mod_convert_number_index(v) == IF v.t = "int" THEN Returns(v) ELSE Raises

\* ------------------------------------------------------------ ast nodes

None == [node |-> "None"]
IsNone(node) == node.node = "None"

ast_Str(chars) == [node |-> "Str", s |-> chars]
ast_Constant(v) == [node |-> "Constant", value |-> v]
ast_Name(id) == [node |-> "Name", id |-> id]
ast_Tuple(elts) == [node |-> "Tuple", elts |-> elts]
ast_Num(n) == [node |-> "Num", n |-> n]
ast_Index(value) == [node |-> "Index", value |-> value]
ast_Attribute(value, attr) == [node |-> "Attribute", value |-> value, attr |-> attr]
ast_Call(func, args) == [node |-> "Call", func |-> func, args |-> args]
ast_Subscript(value, slice) == [node |-> "Subscript", value |-> value, slice |-> slice]
ast_FormattedValue(value, conversion, format_spec) ==
    [node |-> "FormattedValue", value |-> value, conversion |-> conversion,
     format_spec |-> format_spec]
ast_JoinedStr(values) == [node |-> "JoinedStr", values |-> values]
ast_BinOp(left, op, right) == [node |-> "BinOp", left |-> left, op |-> op, right |-> right]

\* ord(ch) of the conversion characters of a FormattedValue
ord(ch) == IF ch = "s" THEN 115 ELSE IF ch = "r" THEN 114 ELSE 97

\* compiler.optimizer: a node that carries a constant, and its value
is_const(node) == node.node \in {"Str", "Constant"}

get_const_value(node) == IF node.node = "Str" THEN PyStr(node.s) ELSE node.value

\* AstOptimizer.makeConstTuple: the constant tuple of constant elements
RECURSIVE const_values(_)
const_values(elts) ==
    IF elts = <<>> THEN <<>>
    ELSE <<get_const_value(elts[1])>> \o const_values(Tail(elts))

makeConstTuple(elts) ==
    IF \A k \in 1..Len(elts) : is_const(elts[k])
    THEN ast_Constant(PyTuple(const_values(elts)))
    ELSE None

\* compiler.optimizer.BIN_OPS: the handler of an operator on two constants,
\* "%" and "+" on a str and the TypeError of the other operators on a str
bin_op(op, lval, rval) ==
    IF op = "Mod"
    THEN IF lval.t = "str" THEN str_mod(lval.s, rval)
         ELSE IF lval.t # "int" \/ rval.t # "int" \/ rval.i = 0 THEN Raises
         ELSE IF rval.i > 0 THEN Returns(PyInt(lval.i % rval.i))
         ELSE Returns(PyInt(-((-lval.i) % (-rval.i))))
    ELSE IF lval.t = "str" /\ rval.t = "str" THEN Returns(PyStr(lval.s \o rval.s))
    ELSE Raises

\* ------------------------------------------------------------ rewrite_str_mod

should_rewrite_printf(node) == node.left.node = "Str" /\ node.op = "Mod"

create_conversion_call(name, value) ==
    ast_Call(ast_Attribute(ast_Str(<<>>), name), <<value>>)

\* the outcome of try_constant_fold_mod: a node, or the exception raised
try_constant_fold_mod(format_string, right) ==
    LET r == str_mod(format_string, get_const_value(right))
    IN  IF r.ok THEN Returns(ast_Str(r.v.s)) ELSE Raises

\* the try block without its except clause: the exception is the result
fold_str_mod_propagating(format_string, right) ==
    IF is_const(right)
    THEN LET r == try_constant_fold_mod(format_string, right)
         IN  IF r.ok THEN r.v ELSE [node |-> "Exception"]
    ELSE IF right.node # "Tuple" THEN None
    ELSE LET const_tuple == makeConstTuple(right.elts)
             r == str_mod(format_string, const_tuple.value)
         IN  IF IsNone(const_tuple) THEN None
             ELSE IF r.ok THEN ast_Str(r.v.s) ELSE [node |-> "Exception"]

\* lines 35-43: the node the try block returns, None when it falls through
fold_str_mod(format_string, right) ==
    IF is_const(right)
    THEN LET r == try_constant_fold_mod(format_string, right)
         IN  IF r.ok THEN r.v ELSE None
    ELSE IF right.node # "Tuple" THEN None
    ELSE LET const_tuple == makeConstTuple(right.elts)
             r == str_mod(format_string, const_tuple.value)
         IN  IF IsNone(const_tuple) THEN None
             ELSE IF r.ok THEN ast_Str(r.v.s) ELSE None

\* str.find(ch, i) and the slice format_string[a:b], on zero-based indices
RECURSIVE find(_, _, _)
find(format_string, ch, i) ==
    IF i >= Len(format_string) THEN -1
    ELSE IF format_string[i + 1] = ch THEN i
    ELSE find(format_string, ch, i + 1)

Slice(format_string, a, b) == SubSeq(format_string, a + 1, b)

\* lines 44-66: the number of specifiers; not ok where the loop returns None
RECURSIVE count_specifiers(_, _, _)
count_specifiers(format_string, i, n_specifiers) ==
    LET length == Len(format_string)
        p == find(format_string, "%", i)
    IN  IF i >= length \/ p = -1 THEN [ok |-> TRUE, n |-> n_specifiers]
        ELSE IF p + 1 >= length THEN [ok |-> FALSE, n |-> n_specifiers]
        ELSE IF format_string[p + 2] = "%"
        THEN count_specifiers(format_string, p + 2, n_specifiers)
        ELSE IF format_string[p + 2] = "("
        THEN [ok |-> FALSE, n |-> n_specifiers]
        ELSE count_specifiers(format_string, p + 2, n_specifiers + 1)

\* lines 105-116: the loop over "0" flags; ch is the character read last and
\* i the index of the next one
RECURSIVE parse_flags(_, _, _)
parse_flags(format_string, ch, i) ==
    IF ch # "0" THEN [ok |-> TRUE, ch |-> ch, i |-> i]
    ELSE IF i >= Len(format_string) THEN [ok |-> FALSE, ch |-> ch, i |-> i]
    ELSE parse_flags(format_string, format_string[i + 1], i + 1)

\* lines 123-127
RECURSIVE parse_digits(_, _, _)
parse_digits(format_string, ch, i) ==
    IF ch \notin DecimalDigits THEN [ok |-> TRUE, ch |-> ch, i |-> i]
    ELSE IF i >= Len(format_string) THEN [ok |-> FALSE, ch |-> ch, i |-> i]
    ELSE parse_digits(format_string, format_string[i + 1], i + 1)

\* lines 117-127
parse_width(format_string, ch, i) ==
    IF ch \notin DecimalDigits \ {"0"}
    THEN [ok |-> TRUE, ch |-> ch, i |-> i, have_width |-> FALSE]
    ELSE IF i >= Len(format_string)
    THEN [ok |-> FALSE, ch |-> ch, i |-> i, have_width |-> TRUE]
    ELSE LET d == parse_digits(format_string, format_string[i + 1], i + 1)
         IN  [ok |-> d.ok, ch |-> d.ch, i |-> d.i, have_width |-> TRUE]

\* specifier_value that does not advance: every specifier takes the first element
specifier_value_first(right, value_idx) ==
    IF right.node = "Tuple" THEN right.elts[1]
    ELSE ast_Subscript(create_conversion_call("_mod_check_single_arg", right),
                       ast_Index(ast_Num(0)))

\* lines 138-146: the value a specifier consumes
specifier_value(right, value_idx) ==
    IF right.node = "Tuple" THEN right.elts[value_idx + 1]
    ELSE ast_Subscript(create_conversion_call("_mod_check_single_arg", right),
                       ast_Index(ast_Num(0)))

\* formatted without the ">" of line 154
formatted_no_align(ch, value, spec_str, have_width) ==
    IF ch \in {"s", "r", "a"}
    THEN ast_FormattedValue(value, ord(ch),
                            IF spec_str # <<>> THEN ast_Str(spec_str) ELSE None)
    ELSE IF ch \in {"d", "i", "u"}
    THEN ast_FormattedValue(create_conversion_call("_mod_convert_number_int", value),
                            -1,
                            IF spec_str # <<>> THEN ast_Str(spec_str) ELSE None)
    ELSE IF ch \in {"x", "X", "o"}
    THEN ast_FormattedValue(create_conversion_call("_mod_convert_number_index", value),
                            -1, ast_Str(spec_str \o <<ch>>))
    ELSE None

\* formatted without the final else: an unknown character formats as "s"
formatted_any(ch, value, spec_str, have_width) ==
    IF ch \in {"d", "i", "u"}
    THEN ast_FormattedValue(create_conversion_call("_mod_convert_number_int", value),
                            -1,
                            IF spec_str # <<>> THEN ast_Str(spec_str) ELSE None)
    ELSE IF ch \in {"x", "X", "o"}
    THEN ast_FormattedValue(create_conversion_call("_mod_convert_number_index", value),
                            -1, ast_Str(spec_str \o <<ch>>))
    ELSE LET spec == IF have_width THEN <<">">> \o spec_str ELSE spec_str
         IN  ast_FormattedValue(value, ord("s"),
                                IF spec # <<>> THEN ast_Str(spec) ELSE None)

\* lines 149-177: the FormattedValue of a conversion character
formatted(ch, value, spec_str, have_width) ==
    IF ch \in {"s", "r", "a"}
    THEN LET spec == IF have_width THEN <<">">> \o spec_str ELSE spec_str
         IN  ast_FormattedValue(value, ord(ch),
                                IF spec # <<>> THEN ast_Str(spec) ELSE None)
    ELSE IF ch \in {"d", "i", "u"}
    THEN ast_FormattedValue(create_conversion_call("_mod_convert_number_int", value),
                            -1,
                            IF spec_str # <<>> THEN ast_Str(spec_str) ELSE None)
    ELSE IF ch \in {"x", "X", "o"}
    THEN ast_FormattedValue(create_conversion_call("_mod_convert_number_index", value),
                            -1, ast_Str(spec_str \o <<ch>>))
    ELSE None

\* lines 85-179: the second loop from index i on; the state at its exit, not
\* ok where the loop returns None
RECURSIVE scan_specifiers(_, _, _, _, _, _)
scan_specifiers(format_string, right, i, value_idx, segment_begin, strings) ==
    LET length == Len(format_string)
        exit == [ok |-> TRUE, value_idx |-> value_idx,
                 segment_begin |-> segment_begin, strings |-> strings]
        fail == [ok |-> FALSE, value_idx |-> value_idx,
                 segment_begin |-> segment_begin, strings |-> strings]
        p == find(format_string, "%", i)
        segment_end == p
        strings1 == IF segment_end - segment_begin > 0
                    THEN Append(strings,
                                ast_Str(Slice(format_string, segment_begin, segment_end)))
                    ELSE strings
        spec_begin == p + 1
        f == parse_flags(format_string, format_string[p + 2], p + 2)
        w == parse_width(format_string, f.ch, f.i)
        spec_str == IF w.i - 1 - spec_begin > 0
                    THEN Slice(format_string, spec_begin, w.i - 1)
                    ELSE <<>>
        num_values == IF right.node = "Tuple" THEN Len(right.elts) ELSE 1
        node == formatted(w.ch, specifier_value(right, value_idx), spec_str,
                          w.have_width)
    IN  IF i >= length \/ p = -1 THEN exit
        ELSE IF p + 1 >= length THEN fail
        ELSE IF ~f.ok \/ ~w.ok THEN fail
        ELSE IF w.ch = "%"
        THEN scan_specifiers(format_string, right, w.i, value_idx, w.i - 1, strings1)
        ELSE IF right.node = "Tuple" /\ value_idx >= num_values THEN fail
        ELSE IF IsNone(node) THEN fail
        ELSE scan_specifiers(format_string, right, w.i, value_idx + 1, w.i,
                             Append(strings1, node))

\* lines 44-189: the scan that follows the try block
scan_str_mod(format_string, right) ==
    LET length == Len(format_string)
        c == count_specifiers(format_string, 0, 0)
        num_values == IF right.node = "Tuple" THEN Len(right.elts) ELSE 1
        s == scan_specifiers(format_string, right, 0, 0, 0, <<>>)
    IN  IF ~c.ok THEN None
        ELSE IF right.node # "Tuple" /\ c.n # 1 THEN None
        ELSE IF ~s.ok THEN None
        ELSE IF s.value_idx # num_values THEN None
        ELSE ast_JoinedStr(
                 IF length - s.segment_begin > 0
                 THEN Append(s.strings,
                             ast_Str(Slice(format_string, s.segment_begin, length)))
                 ELSE s.strings)

rewrite_str_mod(left, right) ==
    LET format_string == left.s
        folded == fold_str_mod(format_string, right)
    IN  IF ~IsNone(folded) THEN folded ELSE scan_str_mod(format_string, right)

\* ------------------------------------------------------------ evaluation
\* The value of an expression where env gives the values of the names: the
\* evaluation of "%" on a str, of a call of a helper method of str and of an
\* f-string (JoinedStr of Str and FormattedValue nodes).

RECURSIVE eval(_, _)
RECURSIVE eval_all(_, _)
RECURSIVE eval_joined(_, _, _)

eval_formatted(fv, env) ==
    LET v == eval(fv.value, env)
        converted == IF fv.conversion = ord("s") THEN PyStr(str(v.v))
                     ELSE IF fv.conversion \in {ord("r"), ord("a")} THEN PyStr(repr(v.v))
                     ELSE v.v
    IN  IF ~v.ok THEN Raises
        ELSE format(converted,
                    IF IsNone(fv.format_spec) THEN <<>> ELSE fv.format_spec.s)

eval_call(name, arg) ==
    IF name = "_mod_check_single_arg" THEN _mod_check_single_arg(arg)
    ELSE IF name = "_mod_convert_number_int" THEN _mod_convert_number_int(arg)
    ELSE _mod_convert_number_index(arg)

\* the tuple of the values of a list of expressions
eval_all(elts, env) ==
    IF elts = <<>> THEN Returns(PyTuple(<<>>))
    ELSE LET head == eval(elts[1], env)
             rest == eval_all(Tail(elts), env)
         IN  IF head.ok /\ rest.ok
             THEN Returns(PyTuple(<<head.v>> \o rest.v.items))
             ELSE Raises

eval_joined(values, env, out) ==
    IF values = <<>> THEN Returns(PyStr(out))
    ELSE LET head == eval(values[1], env)
         IN  IF ~head.ok THEN Raises
             ELSE eval_joined(Tail(values), env, out \o head.v.s)

eval(node, env) ==
    IF node.node = "Name" THEN Returns(env[node.id])
    ELSE IF node.node = "Constant" THEN Returns(node.value)
    ELSE IF node.node = "Str" THEN Returns(PyStr(node.s))
    ELSE IF node.node = "Tuple" THEN eval_all(node.elts, env)
    ELSE IF node.node = "Call"
    THEN LET arg == eval(node.args[1], env)
         IN  IF arg.ok THEN eval_call(node.func.attr, arg.v) ELSE Raises
    ELSE IF node.node = "Subscript"
    THEN LET v == eval(node.value, env)
         IN  IF v.ok THEN Returns(v.v.items[node.slice.value.n + 1]) ELSE Raises
    ELSE IF node.node = "FormattedValue" THEN eval_formatted(node, env)
    ELSE IF node.node = "JoinedStr" THEN eval_joined(node.values, env, <<>>)
    ELSE LET l == eval(node.left, env)
             r == eval(node.right, env)
         IN  IF l.ok /\ r.ok THEN bin_op(node.op, l.v, r.v) ELSE Raises

\* ------------------------------------------------------------ printf inputs
\* Format strings are runs of at most MaxParts parts: a literal character or
\* "%", a flag, a width and a conversion character, each of the last three
\* possibly missing.  Right operands are tuple displays of at most MaxArgs
\* elements, names and constants.

MaxParts == 2
MaxArgs == 2

FlagChoices == {<<>>, <<"0">>, <<"-">>}
WidthChoices == {<<>>, <<"5">>}
ConversionChoices ==
    {<<>>, <<"%">>, <<"(">>, <<"Z">>,
     <<"s">>, <<"r">>, <<"a">>, <<"d">>, <<"i">>, <<"u">>, <<"x">>, <<"X">>, <<"o">>}
LiteralChoices == {<<"T">>, <<"s">>}

FormatParts ==
    LiteralChoices
    \cup {<<"%">> \o f \o w \o c :
             f \in FlagChoices, w \in WidthChoices, c \in ConversionChoices}

RECURSIVE FormatsOf(_)
FormatsOf(k) ==
    IF k = 0 THEN {<<>>}
    ELSE LET shorter == FormatsOf(k - 1)
         IN  shorter \cup {fs \o part : fs \in shorter, part \in FormatParts}

FormatStrings == FormatsOf(MaxParts)

Names == {"x", "y"}
Values == {PyInt(-42), PyStr(<<"a", "b">>)}
Environments == [Names -> Values]

TupleElements == {ast_Name(id) : id \in Names} \cup {ast_Constant(PyInt(-42))}

TupleDisplays ==
    {ast_Tuple(elts) : elts \in UNION {[1..m -> TupleElements] : m \in 0..MaxArgs}}

ConstantOperands ==
    {ast_Constant(v) :
        v \in Values \cup {PyTuple(<<>>), PyTuple(<<PyInt(-42)>>),
                           PyTuple(<<PyStr(<<"a", "b">>), PyInt(-42)>>)}}

RightOperands == TupleDisplays \cup ConstantOperands \cup {ast_Name("x")}

\* "%" with a format string on the left, and a few nodes of the other kinds:
\* another operator, or a left operand that is not a string
BinOps ==
    {ast_BinOp(ast_Str(fs), "Mod", right) :
        fs \in FormatStrings, right \in RightOperands}
    \cup {ast_BinOp(ast_Str(fs), op, right) :
             fs \in FormatsOf(1), op \in {"Add"}, right \in ConstantOperands}
    \cup {ast_BinOp(ast_Name("y"), "Mod", right) : right \in RightOperands}

\* ------------------------------------------------------------ state

VARIABLES
    code,                    \* the code object passed to optimize_load_fast
    ops,                     \* the decoded instruction list
    blocks,                  \* the blocks of create_blocks, in id order
    preds,                   \* block id -> ids of its predecessors
    live_out,                \* block id -> assignment state at block exit
    conditionally_assigned,  \* name indices that get a prelude instruction
    changed,                 \* the flag of the fixed-point loop
    passes,                  \* iterations of the while loop started so far
    bi,                      \* id of the next block of the running for loop
    incoming,                \* block id -> state its last evaluation began with
    pc,                      \* "start", "iterate", "modify", "emit", "done"
    result,                  \* the returned code object
    pending,                 \* block ids a for loop in free order has yet to visit
    binop,                   \* the BinOp node passed to visitBinOp
    binop_result,            \* the node visitBinOp returns
    binop_pc,                \* "visit", "done"
    ssa_preds,               \* Interpreter.preds: block -> its predecessors
    ssa_instrs,              \* the SSAInstructions in the order of their ids
    current_def,             \* Interpreter.current_def
    stack,                   \* Interpreter.stack
    ssa_block,               \* Interpreter.block and the key of Interpreter.ssa_block
    trace,                   \* the instructions interpreted so far
    ssa_pc,                  \* "run", or the exception that ended the run
    last_comprehension_rename_index,  \* scope -> the attribute, where it is set
    renamers,                \* the ComprehensionRenamers in construction order
    visited                  \* the node of the last visitName or visitarg

loadFastVars == <<code, ops, blocks, preds, live_out, conditionally_assigned,
                  changed, passes, bi, incoming, pc, result>>
strModVars == <<binop, binop_result, binop_pc>>
ssaVars == <<ssa_preds, ssa_instrs, current_def, stack, ssa_block, trace, ssa_pc>>
renamerVars == <<last_comprehension_rename_index, renamers, visited>>

vars == <<loadFastVars, strModVars, ssaVars, renamerVars, pending>>

NoResult == [co_code |-> <<>>]
NotEvaluated == -1

notLoadFast == <<strModVars, ssaVars, renamerVars, pending>>
notStrMod == <<loadFastVars, ssaVars, renamerVars, pending>>
notSsa == <<loadFastVars, strModVars, renamerVars, pending>>
notRenamer == <<loadFastVars, strModVars, ssaVars, pending>>
notAnalysis == <<strModVars, ssaVars, renamerVars>>

\* the state of a part of the program that is not running
OptimizerIdle ==
    /\ binop = None
    /\ binop_result = None
    /\ binop_pc = "idle"

SsaIdle ==
    /\ ssa_preds = <<>>
    /\ ssa_instrs = <<>>
    /\ current_def = <<>>
    /\ stack = <<>>
    /\ ssa_block = 0
    /\ trace = <<>>
    /\ ssa_pc = "idle"

RenamerIdle ==
    /\ last_comprehension_rename_index = <<>>
    /\ renamers = <<>>
    /\ visited = None

LoadFastIdle ==
    /\ code = NoResult
    /\ ops = <<>>
    /\ blocks = <<>>
    /\ preds = <<>>
    /\ live_out = <<>>
    /\ conditionally_assigned = {}
    /\ changed = FALSE
    /\ passes = 0
    /\ bi = 0
    /\ incoming = <<>>
    /\ pc = "idle"
    /\ result = NoResult
    /\ pending = {}

num_blocks == Len(blocks)

\* the passes the while loop can take while every changing pass clears a bit
PassLimit == num_blocks * num_locals(code) + 1

Init ==
    /\ code \in Inputs
    /\ ops = <<>>
    /\ blocks = <<>>
    /\ preds = <<>>
    /\ live_out = <<>>
    /\ conditionally_assigned = {}
    /\ changed = FALSE
    /\ passes = 0
    /\ bi = 0
    /\ incoming = <<>>
    /\ pc = "start"
    /\ result = NoResult
    /\ pending = {}
    /\ OptimizerIdle
    /\ SsaIdle
    /\ RenamerIdle

\* lines 421-427: an EXTENDED_ARG anywhere returns the code object as it is
BailExtendedArg ==
    /\ pc = "start"
    /\ UNCHANGED notLoadFast
    /\ has_extended_arg(code)
    /\ ops' = code_to_ops(code)
    /\ result' = code
    /\ pc' = "done"
    /\ UNCHANGED <<code, blocks, preds, live_out, conditionally_assigned,
                   changed, passes, bi, incoming>>

\* lines 421-448 and 480-482: decode, build the blocks and their
\* predecessors, start every live_out at AllAssigned and enter the while loop
Setup ==
    /\ pc = "start"
    /\ UNCHANGED notLoadFast
    /\ ~has_extended_arg(code)
    /\ LET instrs == code_to_ops(code)
           bs == create_blocks(instrs)
       IN  /\ ops' = instrs
           /\ blocks' = bs
           /\ preds' = block_preds(bs)
           /\ live_out' = initial_live_out(code, Len(bs))
           /\ incoming' = [i \in 0..(Len(bs) - 1) |-> NotEvaluated]
    /\ conditionally_assigned' = {}
    /\ changed' = FALSE
    /\ passes' = 1
    /\ bi' = 0
    /\ pc' = "iterate"
    /\ UNCHANGED <<code, result>>

\* line 484: changed |= process_one_block(block) for the next block
ProcessBlock ==
    /\ pc = "iterate"
    /\ UNCHANGED notLoadFast
    /\ bi < num_blocks
    /\ LET r == process_one_block(code, preds, blocks[bi + 1], FALSE,
                                  ops, live_out, conditionally_assigned)
       IN  /\ ops' = r.ops
           /\ live_out' = r.live_out
           /\ conditionally_assigned' = r.cond
           /\ changed' = (changed \/ r.ret)
    /\ incoming' = [incoming EXCEPT
                        ![bi] = incoming_alive(code, preds, live_out, bi)]
    /\ bi' = bi + 1
    /\ UNCHANGED <<code, blocks, preds, passes, pc, result>>

\* lines 481-483: the for loop is over and changed is set: another pass
NextPass ==
    /\ pc = "iterate"
    /\ UNCHANGED notLoadFast
    /\ bi = num_blocks
    /\ changed
    /\ passes <= PassLimit
    /\ changed' = FALSE
    /\ passes' = passes + 1
    /\ bi' = 0
    /\ UNCHANGED <<code, ops, blocks, preds, live_out, conditionally_assigned,
                   incoming, pc, result>>

\* line 481: the for loop is over and nothing changed: the while loop ends
Converged ==
    /\ pc = "iterate"
    /\ UNCHANGED notLoadFast
    /\ bi = num_blocks
    /\ ~changed
    /\ pc' = "modify"
    /\ bi' = 0
    /\ UNCHANGED <<code, ops, blocks, preds, live_out, conditionally_assigned,
                   changed, passes, incoming, result>>

\* line 487: process_one_block(block, modify=True) for the next block
ModifyBlock ==
    /\ pc = "modify"
    /\ UNCHANGED notLoadFast
    /\ bi < num_blocks
    /\ LET r == process_one_block(code, preds, blocks[bi + 1], TRUE,
                                  ops, live_out, conditionally_assigned)
       IN  /\ ops' = r.ops
           /\ live_out' = r.live_out
           /\ conditionally_assigned' = r.cond
    /\ incoming' = [incoming EXCEPT
                        ![bi] = incoming_alive(code, preds, live_out, bi)]
    /\ bi' = bi + 1
    /\ UNCHANGED <<code, blocks, preds, changed, passes, pc, result>>

\* lines 489-503: the prelude and the output loop
Emit ==
    /\ pc = "modify"
    /\ UNCHANGED notLoadFast
    /\ bi = num_blocks
    /\ LET out == emit(ops, conditionally_assigned)
       IN  /\ ops' = out.ops
           /\ result' = emit_result(code, out)
    /\ pc' = "done"
    /\ UNCHANGED <<code, blocks, preds, live_out, conditionally_assigned,
                   changed, passes, bi, incoming>>

Next ==
    \/ BailExtendedArg
    \/ Setup
    \/ ProcessBlock
    \/ NextPass
    \/ Converged
    \/ ModifyBlock
    \/ Emit

Spec == Init /\ [][Next]_vars

\* ------------------------------------------------------------ free block order

\* optimize_load_fast with each for loop over the blocks taken in an order
\* chosen anew for every loop; bi counts the blocks the loop has visited
InitAnyOrder ==
    /\ code \in {c \in Inputs : ~has_extended_arg(c)}
    /\ ops = <<>>
    /\ blocks = <<>>
    /\ preds = <<>>
    /\ live_out = <<>>
    /\ conditionally_assigned = {}
    /\ changed = FALSE
    /\ passes = 0
    /\ bi = 0
    /\ incoming = <<>>
    /\ pc = "start"
    /\ result = NoResult
    /\ pending = {}
    /\ OptimizerIdle
    /\ SsaIdle
    /\ RenamerIdle

BlockIds == 0..(num_blocks - 1)

SetupAnyOrder ==
    /\ pc = "start"
    /\ LET instrs == code_to_ops(code)
           bs == create_blocks(instrs)
       IN  /\ ops' = instrs
           /\ blocks' = bs
           /\ preds' = block_preds(bs)
           /\ live_out' = initial_live_out(code, Len(bs))
           /\ incoming' = [i \in 0..(Len(bs) - 1) |-> NotEvaluated]
           /\ pending' = 0..(Len(bs) - 1)
    /\ conditionally_assigned' = {}
    /\ changed' = FALSE
    /\ passes' = 1
    /\ bi' = 0
    /\ pc' = "iterate"
    /\ UNCHANGED <<code, result, notAnalysis>>

\* line 484 for some block the running pass has not visited
ProcessAnyBlock ==
    /\ pc = "iterate"
    /\ \E b \in pending :
          LET r == process_one_block(code, preds, blocks[b + 1], FALSE,
                                     ops, live_out, conditionally_assigned)
          IN  /\ ops' = r.ops
              /\ live_out' = r.live_out
              /\ conditionally_assigned' = r.cond
              /\ changed' = (changed \/ r.ret)
              /\ incoming' = [incoming EXCEPT
                                  ![b] = incoming_alive(code, preds, live_out, b)]
              /\ pending' = pending \ {b}
    /\ bi' = bi + 1
    /\ UNCHANGED <<code, blocks, preds, passes, pc, result, notAnalysis>>

NextPassAnyOrder ==
    /\ pc = "iterate"
    /\ pending = {}
    /\ changed
    /\ passes <= PassLimit
    /\ changed' = FALSE
    /\ passes' = passes + 1
    /\ bi' = 0
    /\ pending' = BlockIds
    /\ UNCHANGED <<code, ops, blocks, preds, live_out, conditionally_assigned,
                   incoming, pc, result, notAnalysis>>

ConvergedAnyOrder ==
    /\ pc = "iterate"
    /\ pending = {}
    /\ ~changed
    /\ pc' = "modify"
    /\ bi' = 0
    /\ pending' = BlockIds
    /\ UNCHANGED <<code, ops, blocks, preds, live_out, conditionally_assigned,
                   changed, passes, incoming, result, notAnalysis>>

\* line 487 for some block the final pass has not visited
ModifyAnyBlock ==
    /\ pc = "modify"
    /\ \E b \in pending :
          LET r == process_one_block(code, preds, blocks[b + 1], TRUE,
                                     ops, live_out, conditionally_assigned)
          IN  /\ ops' = r.ops
              /\ live_out' = r.live_out
              /\ conditionally_assigned' = r.cond
              /\ incoming' = [incoming EXCEPT
                                  ![b] = incoming_alive(code, preds, live_out, b)]
              /\ pending' = pending \ {b}
    /\ bi' = bi + 1
    /\ UNCHANGED <<code, blocks, preds, changed, passes, pc, result, notAnalysis>>

EmitAnyOrder ==
    /\ pc = "modify"
    /\ pending = {}
    /\ LET out == emit(ops, conditionally_assigned)
       IN  /\ ops' = out.ops
           /\ result' = emit_result(code, out)
    /\ pc' = "done"
    /\ UNCHANGED <<code, blocks, preds, live_out, conditionally_assigned,
                   changed, passes, bi, incoming, pending, notAnalysis>>

NextAnyOrder ==
    \/ SetupAnyOrder
    \/ ProcessAnyBlock
    \/ NextPassAnyOrder
    \/ ConvergedAnyOrder
    \/ ModifyAnyBlock
    \/ EmitAnyOrder

SpecAnyOrder == InitAnyOrder /\ [][NextAnyOrder]_vars

\* ------------------------------------------------------------ visitBinOp

InitStrMod ==
    /\ binop \in BinOps
    /\ binop_result = None
    /\ binop_pc = "visit"
    /\ LoadFastIdle
    /\ SsaIdle
    /\ RenamerIdle

\* lines 195-203: the handler's value when both operands are constants and
\* the handler does not raise
folded_constant(node) ==
    IF is_const(node.left) /\ is_const(node.right)
    THEN bin_op(node.op, get_const_value(node.left), get_const_value(node.right))
    ELSE Raises

\* lines 205-208: the result of rewrite_str_mod, None when it is not tried
rewritten(node) ==
    IF should_rewrite_printf(node) THEN rewrite_str_mod(node.left, node.right)
    ELSE None

\* lines 195-203
FoldConstant ==
    /\ binop_pc = "visit"
    /\ folded_constant(binop).ok
    /\ binop_result' = ast_Constant(folded_constant(binop).v)
    /\ binop_pc' = "done"
    /\ UNCHANGED <<binop, notStrMod>>

\* lines 205-208
RewritePrintf ==
    /\ binop_pc = "visit"
    /\ ~folded_constant(binop).ok
    /\ ~IsNone(rewritten(binop))
    /\ binop_result' = rewritten(binop)
    /\ binop_pc' = "done"
    /\ UNCHANGED <<binop, notStrMod>>

\* line 210
UpdateNode ==
    /\ binop_pc = "visit"
    /\ ~folded_constant(binop).ok
    /\ IsNone(rewritten(binop))
    /\ binop_result' = binop
    /\ binop_pc' = "done"
    /\ UNCHANGED <<binop, notStrMod>>

NextStrMod == FoldConstant \/ RewritePrintf \/ UpdateNode

SpecStrMod == InitStrMod /\ [][NextStrMod]_vars

\* ------------------------------------------------------------ SSA builder
\* compiler/ssa.py: the Interpreter.  A ssa_block of the flow graph is a number,
\* the entry is ssa_block 1, and the SSA ssa_block of a ssa_block is the one
\* SSACFG.block_at gives for its first instruction.  ssa_instrs holds every
\* SSAInstruction in the order of SSAInstruction.counter: the instruction
\* with id k is ssa_instrs[k + 1], and its field block is the SSA block it
\* was emitted to, NoBlock for an instruction that was created and emitted
\* nowhere because emit raised.  An exception ends the run: ssa_pc is its
\* name.

MaxSteps == 6
MaxExpressionSteps == 4
RecursionLimit == 12
MaxExpressionOps == 2
MaxOparg == 1

entry == 1
\* Interpreter.block and Interpreter.ssa_block are None
NoBlock == 0
SsaVariables == {"x"}

SSAInstruction(opname, args, b) == [opname |-> opname, args |-> args, block |-> b]

\* the flow graphs: ssa_block -> its predecessors in the iteration order of the set
Diamond(first, second) == <<<<>>, <<1>>, <<1>>, <<first, second>>>>
Loop(first, second) == <<<<>>, <<first, second>>, <<2>>, <<2>>>>
Chain == <<<<>>, <<1>>, <<2>>>>
FlowGraphs == {Diamond(2, 3), Diamond(3, 2), Loop(1, 3), Loop(3, 1), Chain}

\* Interpreter.write_variable on the dictionary cd
write_variable(cd, variable, b, value) ==
    IF variable \in DOMAIN cd
    THEN [cd EXCEPT ![variable] = (b :> value) @@ cd[variable]]
    ELSE (variable :> (b :> value)) @@ cd

\* Interpreter.emit and SSAInstruction.__init__: the new instruction gets
\* the next id
ssa_emit(list, opname, args, b) == Append(list, SSAInstruction(opname, args, b))

Raised(st, error) == [st |-> st, value |-> 0, error |-> error]
Read(st, value) == [st |-> st, value |-> value, error |-> "none"]

RECURSIVE read_variable(_, _, _, _)
RECURSIVE read_variable_recursive(_, _, _, _)
RECURSIVE read_predecessors(_, _, _, _, _, _)

\* lines 110-113: the loop over the predecessors from the k-th on, appending
\* each definition to the arguments of the phi
read_predecessors(st, variable, b, phi, k, depth) ==
    IF k > Len(ssa_preds[b]) THEN Read(st, phi)
    ELSE LET r == read_variable(st, variable, ssa_preds[b][k], depth + 1)
             appended == [r.st EXCEPT !.instrs[phi + 1].args = Append(@, r.value)]
         IN  IF r.error # "none" THEN r
             ELSE read_predecessors(appended, variable, b, phi, k + 1, depth)

\* read_variable_recursive that does not record the phi for the block
read_variable_recursive_fresh(st, variable, b, depth) ==
    IF depth > RecursionLimit THEN Raised(st, "RecursionError")
    ELSE IF b \notin DOMAIN ssa_preds THEN Raised(st, "KeyError")
    ELSE IF Len(ssa_preds[b]) = 0 THEN Raised(st, "AssertionError")
    ELSE IF Len(ssa_preds[b]) = 1
    THEN read_variable(st, variable, ssa_preds[b][1], depth + 1)
    ELSE LET phi == Len(st.instrs)
             recorded == [instrs |-> ssa_emit(st.instrs, "Phi", <<>>, ssa_block),
                          current_def |-> st.current_def]
         IN  read_predecessors(recorded, variable, b, phi, 1, depth)

\* read_variable_recursive that records the phi after reading the predecessors
read_variable_recursive_late(st, variable, b, depth) ==
    IF depth > RecursionLimit THEN Raised(st, "RecursionError")
    ELSE IF b \notin DOMAIN ssa_preds THEN Raised(st, "KeyError")
    ELSE IF Len(ssa_preds[b]) = 0 THEN Raised(st, "AssertionError")
    ELSE IF Len(ssa_preds[b]) = 1
    THEN read_variable(st, variable, ssa_preds[b][1], depth + 1)
    ELSE LET phi == Len(st.instrs)
             emitted == [instrs |-> ssa_emit(st.instrs, "Phi", <<>>, ssa_block),
                         current_def |-> st.current_def]
             r == read_predecessors(emitted, variable, b, phi, 1, depth)
         IN  IF r.error # "none" THEN r
             ELSE Read([instrs |-> r.st.instrs,
                        current_def |->
                            write_variable(r.st.current_def, variable, b, phi)],
                       phi)

\* read_variable_recursive that makes a phi for every block, whatever the
\* number of its predecessors
read_variable_recursive_always_phi(st, variable, b, depth) ==
    IF depth > RecursionLimit THEN Raised(st, "RecursionError")
    ELSE IF b \notin DOMAIN ssa_preds THEN Raised(st, "KeyError")
    ELSE IF Len(ssa_preds[b]) = 0 THEN Raised(st, "AssertionError")
    ELSE LET phi == Len(st.instrs)
             recorded == [instrs |-> ssa_emit(st.instrs, "Phi", <<>>, ssa_block),
                          current_def |->
                              write_variable(st.current_def, variable, b, phi)]
         IN  read_predecessors(recorded, variable, b, phi, 1, depth)

\* lines 102-113; st holds current_def and the instructions, depth counts
\* the frames of the recursion.  self.preds[block] raises KeyError for a
\* block that is no key of preds (None)
read_variable_recursive(st, variable, b, depth) ==
    IF depth > RecursionLimit THEN Raised(st, "RecursionError")
    ELSE IF b \notin DOMAIN ssa_preds THEN Raised(st, "KeyError")
    ELSE IF Len(ssa_preds[b]) = 0 THEN Raised(st, "AssertionError")
    ELSE IF Len(ssa_preds[b]) = 1
    THEN read_variable(st, variable, ssa_preds[b][1], depth + 1)
    ELSE LET phi == Len(st.instrs)
             recorded == [instrs |-> ssa_emit(st.instrs, "Phi", <<>>, ssa_block),
                          current_def |->
                              write_variable(st.current_def, variable, b, phi)]
         IN  read_predecessors(recorded, variable, b, phi, 1, depth)

\* lines 115-123
read_variable(st, variable, b, depth) ==
    IF depth > RecursionLimit THEN Raised(st, "RecursionError")
    ELSE LET undef == Len(st.instrs)
             st1 == IF variable \notin DOMAIN st.current_def
                    THEN [instrs |-> ssa_emit(st.instrs, "Undef", <<>>, entry),
                          current_def |->
                              write_variable(st.current_def, variable, entry, undef)]
                    ELSE st
         IN  IF b \in DOMAIN st1.current_def[variable]
             THEN Read(st1, st1.current_def[variable][b])
             ELSE read_variable_recursive(st1, variable, b, depth + 1)

\* Interpreter.__init__ on one of the flow graphs: block and ssa_block are
\* None until the caller sets them
InitSsa ==
    /\ ssa_preds \in FlowGraphs
    /\ ssa_instrs = <<>>
    /\ current_def = <<>>
    /\ stack = <<>>
    /\ ssa_block = NoBlock
    /\ trace = <<>>
    /\ ssa_pc = "run"
    /\ LoadFastIdle
    /\ OptimizerIdle
    /\ RenamerIdle

\* the instructions other than the loads, stores and deletes of constants
\* and locals.  A run interprets MaxSteps instructions at most; a run that
\* holds some of these interprets MaxExpressionOps of them and
\* MaxExpressionSteps instructions at most
ExpressionOps == {"BINARY_MULTIPLY", "BINARY_ADD", "RETURN_VALUE", "BUILD_LIST",
                  "GET_ITER", "FOR_ITER", "LOAD_METHOD", "CALL_METHOD",
                  "POP_JUMP_IF_FALSE", "JUMP_ABSOLUTE"}
Expressions == {k \in 1..Len(trace) : trace[k].op \in ExpressionOps}

Running ==
    /\ ssa_pc = "run"
    /\ Len(trace) < (IF Expressions = {} THEN MaxSteps ELSE MaxExpressionSteps)

RunningExpression ==
    /\ ssa_pc = "run"
    /\ Len(trace) < MaxExpressionSteps
    /\ Cardinality(Expressions) < MaxExpressionOps

Event(op, variable, value, error) ==
    [op |-> op, variable |-> variable, block |-> ssa_block, value |-> value,
     error |-> error]

\* the caller sets Interpreter.block and Interpreter.ssa_block: to the entry
\* first, then to the next block of the graph
NextBlock ==
    /\ ssa_pc = "run"
    /\ ssa_block < Len(ssa_preds)
    /\ ssa_block' = ssa_block + 1
    /\ UNCHANGED <<ssa_preds, ssa_instrs, current_def, stack, trace, ssa_pc, notSsa>>

\* self.emit: AttributeError when ssa_block is None
emit_error == IF ssa_block = NoBlock THEN "AttributeError" ELSE "none"

\* Interpreter.clone: the SSAInstruction is created, then emitted to the
\* current SSA block
clone(list, opname, operands) == ssa_emit(list, opname, operands, ssa_block)

\* the outcome of a method on the instruction list and the stack
Outcome(list, s, value, error) ==
    [instrs |-> list, stack |-> s, value |-> value, error |-> error]

\* self.stack.pop() n times, then clone with the popped values in the order
\* of the stack; list.pop raises IndexError once the stack is empty
pop_and_clone(opname, n) ==
    IF Len(stack) < n THEN Outcome(ssa_instrs, <<>>, 0, "IndexError")
    ELSE Outcome(clone(ssa_instrs, opname,
                       SubSeq(stack, Len(stack) - n + 1, Len(stack))),
                 SubSeq(stack, 1, Len(stack) - n), Len(ssa_instrs), emit_error)

\* self.stack.append(result) after a clone that returned
push_result(o) ==
    IF o.error = "none" THEN [o EXCEPT !.stack = Append(@, o.value)] ELSE o

\* self.targets(): Interpreter has no attribute succs
targets(o) ==
    IF o.error = "none" THEN [o EXCEPT !.value = 0, !.error = "AttributeError"]
    ELSE o

\* the effect of a method that leaves current_def alone
Interpreted(op, o) ==
    /\ ssa_instrs' = o.instrs
    /\ stack' = o.stack
    /\ ssa_pc' = IF o.error = "none" THEN "run" ELSE o.error
    /\ trace' = Append(trace, Event(op, "", o.value, o.error))
    /\ UNCHANGED <<ssa_preds, current_def, ssa_block, notSsa>>

\* the value is pushed before it is emitted
do_LOAD_CONST ==
    /\ Running
    /\ ssa_instrs' = ssa_emit(ssa_instrs, "LOAD_CONST", <<>>, ssa_block)
    /\ stack' = Append(stack, Len(ssa_instrs))
    /\ ssa_pc' = IF emit_error = "none" THEN "run" ELSE emit_error
    /\ trace' = Append(trace, Event("LOAD_CONST", "", Len(ssa_instrs), emit_error))
    /\ UNCHANGED <<ssa_preds, current_def, ssa_block, notSsa>>

do_LOAD_FAST ==
    /\ Running
    /\ \E variable \in SsaVariables :
          LET r == read_variable([instrs |-> ssa_instrs, current_def |-> current_def],
                                 variable, ssa_block, 1)
          IN  /\ ssa_instrs' = r.st.instrs
              /\ current_def' = r.st.current_def
              /\ stack' = IF r.error = "none" THEN Append(stack, r.value) ELSE stack
              /\ ssa_pc' = IF r.error = "none" THEN "run" ELSE r.error
              /\ trace' = Append(trace, Event("LOAD_FAST", variable, r.value, r.error))
    /\ UNCHANGED <<ssa_preds, ssa_block, notSsa>>

\* lines 139-143, under its two names
do_BINARY_MULTIPLY ==
    /\ RunningExpression
    /\ \E opname \in {"BINARY_MULTIPLY", "BINARY_ADD"} :
          Interpreted(opname, push_result(pop_and_clone(opname, 2)))

\* list.pop raises IndexError on the empty stack
do_STORE_FAST ==
    /\ Running
    /\ \E variable \in SsaVariables :
          IF stack = <<>>
          THEN /\ trace' = Append(trace, Event("STORE_FAST", variable, 0,
                                                "IndexError"))
               /\ ssa_pc' = "IndexError"
               /\ UNCHANGED <<current_def, stack>>
          ELSE /\ current_def' = write_variable(current_def, variable, ssa_block,
                                                 stack[Len(stack)])
               /\ trace' = Append(trace, Event("STORE_FAST", variable,
                                                stack[Len(stack)], "none"))
               /\ stack' = SubSeq(stack, 1, Len(stack) - 1)
               /\ UNCHANGED ssa_pc
    /\ UNCHANGED <<ssa_preds, ssa_instrs, ssa_block, notSsa>>

\* Interpreter.delete_variable: del raises KeyError without a definition
do_DELETE_FAST ==
    /\ Running
    /\ \E variable \in SsaVariables :
          LET cd == IF variable \in DOMAIN current_def THEN current_def
                    ELSE (variable :> <<>>) @@ current_def
              found == ssa_block \in DOMAIN cd[variable]
          IN  /\ current_def' =
                    IF found
                    THEN [cd EXCEPT ![variable] =
                             [b \in DOMAIN cd[variable] \ {ssa_block} |-> cd[variable][b]]]
                    ELSE cd
              /\ ssa_pc' = IF found THEN "run" ELSE "KeyError"
              /\ trace' = Append(trace, Event("DELETE_FAST", variable, 0,
                                              IF found THEN "none" ELSE "KeyError"))
    /\ UNCHANGED <<ssa_preds, ssa_instrs, stack, ssa_block, notSsa>>

\* lines 157-165, under its two names: the condition is popped when the
\* name of the instruction holds IF, the instruction is cloned, and
\* self.targets() raises
do_any_jump ==
    /\ RunningExpression
    /\ \/ Interpreted("POP_JUMP_IF_FALSE",
                      targets(pop_and_clone("POP_JUMP_IF_FALSE", 1)))
       \/ Interpreted("JUMP_ABSOLUTE", targets(pop_and_clone("JUMP_ABSOLUTE", 0)))

do_RETURN_VALUE ==
    /\ RunningExpression
    /\ Interpreted("RETURN_VALUE", pop_and_clone("RETURN_VALUE", 1))

do_BUILD_LIST ==
    /\ RunningExpression
    /\ \E oparg \in 0..MaxOparg :
          Interpreted("BUILD_LIST", push_result(pop_and_clone("BUILD_LIST", oparg)))

do_GET_ITER ==
    /\ RunningExpression
    /\ Interpreted("GET_ITER", push_result(pop_and_clone("GET_ITER", 1)))

\* self.stack[-1] raises IndexError on the empty stack; the iterator stays
\* on the stack, the result is pushed, and self.targets() raises before
\* CondBranchIterNotDone is created
do_FOR_ITER ==
    /\ RunningExpression
    /\ Interpreted("FOR_ITER",
          IF stack = <<>> THEN Outcome(ssa_instrs, stack, 0, "IndexError")
          ELSE targets(push_result(
                   Outcome(clone(ssa_instrs, "FOR_ITER", <<stack[Len(stack)]>>),
                           stack, Len(ssa_instrs), emit_error))))

\* the result and its GetSecondOutput are both pushed
do_LOAD_METHOD ==
    /\ RunningExpression
    /\ Interpreted("LOAD_METHOD",
          LET o == push_result(pop_and_clone("LOAD_METHOD", 1))
          IN  IF o.error # "none" THEN o
              ELSE Outcome(ssa_emit(o.instrs, "GetSecondOutput", <<o.value>>,
                                    ssa_block),
                           Append(o.stack, o.value + 1), o.value, "none"))

\* one operand for the receiver and one for the method
do_CALL_METHOD ==
    /\ RunningExpression
    /\ \E oparg \in 0..MaxOparg :
          Interpreted("CALL_METHOD",
                      push_result(pop_and_clone("CALL_METHOD", oparg + 2)))

\* list.pop raises IndexError on the empty stack
do_POP_TOP ==
    /\ Running
    /\ Interpreted("POP_TOP",
          IF stack = <<>> THEN Outcome(ssa_instrs, stack, 0, "IndexError")
          ELSE Outcome(ssa_instrs, SubSeq(stack, 1, Len(stack) - 1),
                       stack[Len(stack)], "none"))

NextSsa ==
    \/ NextBlock
    \/ do_LOAD_CONST
    \/ do_LOAD_FAST
    \/ do_BINARY_MULTIPLY
    \/ do_STORE_FAST
    \/ do_DELETE_FAST
    \/ do_any_jump
    \/ do_RETURN_VALUE
    \/ do_BUILD_LIST
    \/ do_GET_ITER
    \/ do_FOR_ITER
    \/ do_LOAD_METHOD
    \/ do_CALL_METHOD
    \/ do_POP_TOP

SpecSsa == InitSsa /\ [][NextSsa]_vars

\* ------------------------------------------------------------ ComprehensionRenamer

MaxRenamers == 3
MaxIdLen == 6
Scopes == {1, 2}
BaseNames == {<<"x">>}
Contexts == {"Load", "Store", "Del"}

\* line 519: getattr(scope, "last_comprehension_rename_index", -1)
NoIndex == -1
getattr(scope) ==
    IF scope \in DOMAIN last_comprehension_rename_index
    THEN last_comprehension_rename_index[scope]
    ELSE NoIndex

\* a prefix that shares the empty suffix between the first two indices
prefix_from_second(index) ==
    <<"_", "g", "e", "n">>
        \o (IF index > 1 THEN str(PyInt(index)) ELSE <<>>)
        \o <<"$">>

\* line 521: f"_gen{str(index) if index > 0 else ''}$"
prefix(index) ==
    <<"_", "g", "e", "n">>
        \o (IF index > 0 THEN str(PyInt(index)) ELSE <<>>)
        \o <<"$">>

\* dict.get on new_names
HasNewName(r, id) == id \in DOMAIN renamers[r].new_names

\* the identifiers a visited node can carry: the names of the source and
\* the names an earlier renaming has produced
RenamedIds ==
    UNION {{renamers[r].new_names[id] : id \in DOMAIN renamers[r].new_names} :
              r \in 1..Len(renamers)}
InputIds == BaseNames \cup {id \in RenamedIds : Len(id) <= MaxIdLen}

NameNode(id, ctx) == [node |-> "Name", id |-> id, ctx |-> ctx]
ArgNode(arg) == [node |-> "arg", id |-> arg, ctx |-> "Param"]

InitRenamer ==
    /\ last_comprehension_rename_index = <<>>
    /\ renamers = <<>>
    /\ visited = None
    /\ LoadFastIdle
    /\ OptimizerIdle
    /\ SsaIdle

\* ComprehensionRenamer.__init__
Construct ==
    /\ Len(renamers) < MaxRenamers
    /\ \E scope \in Scopes :
          LET index == getattr(scope) + 1
          IN  /\ last_comprehension_rename_index' =
                    (scope :> index) @@ last_comprehension_rename_index
              /\ renamers' = Append(renamers,
                                    [scope |-> scope,
                                     prefix |-> prefix(index),
                                     new_names |-> <<>>,
                                     is_target |-> FALSE])
    /\ UNCHANGED <<visited, notRenamer>>

\* lines 580 and 582: the symbol visitor sets the flag around a target
SetIsTarget ==
    /\ \E r \in 1..Len(renamers) :
          renamers' = [renamers EXCEPT ![r].is_target = ~@]
    /\ UNCHANGED <<last_comprehension_rename_index, visited, notRenamer>>

visitName ==
    /\ \E r \in 1..Len(renamers), id \in InputIds, ctx \in Contexts :
          IF renamers[r].is_target /\ ctx \in {"Store", "Del"}
          THEN LET new_name == renamers[r].prefix \o id
               IN  /\ renamers' = [renamers EXCEPT ![r].new_names =
                                       (id :> new_name) @@ @]
                   /\ visited' = NameNode(new_name, ctx)
          ELSE /\ visited' = NameNode(IF HasNewName(r, id)
                                      THEN renamers[r].new_names[id]
                                      ELSE id, ctx)
               /\ UNCHANGED renamers
    /\ UNCHANGED <<last_comprehension_rename_index, notRenamer>>

visitarg ==
    /\ \E r \in 1..Len(renamers), arg \in InputIds :
          visited' = ArgNode(IF HasNewName(r, arg)
                             THEN renamers[r].new_names[arg]
                             ELSE arg)
    /\ UNCHANGED <<last_comprehension_rename_index, renamers, notRenamer>>

NextRenamer ==
    \/ Construct
    \/ SetIsTarget
    \/ visitName
    \/ visitarg

SpecRenamer == InitRenamer /\ [][NextRenamer]_vars

\* ------------------------------------------------------------ properties

\* the instructions of the input and the code units of the returned code
NumInstrs == Len(code.co_code) \div CODEUNIT_SIZE
InOp(i) == code.co_code[CODEUNIT_SIZE * i + 1]
InArg(i) == code.co_code[CODEUNIT_SIZE * i + 2]
OutLen == Len(result.co_code) \div CODEUNIT_SIZE
OutOp(j) == result.co_code[CODEUNIT_SIZE * j + 1]
OutArg(j) == result.co_code[CODEUNIT_SIZE * j + 2]

\* the number of instructions the returned code holds in front of the input's
PreludeLen == OutLen - NumInstrs

AllSlots == 0..(num_locals(code) - 1)
\* the parameters of the function: positional, keyword-only, *args, **kwargs
NumArgs ==
    code.co_argcount + code.co_kwonlyargcount
        + (IF "CO_VARARGS" \in code.co_flags THEN 1 ELSE 0)
        + (IF "CO_VARKEYWORDS" \in code.co_flags THEN 1 ELSE 0)
ArgSlots == 0..(NumArgs - 1)

AbsoluteJumps ==
    {"JUMP_ABSOLUTE", "POP_JUMP_IF_FALSE", "POP_JUMP_IF_TRUE",
     "JUMP_IF_FALSE_OR_POP", "JUMP_IF_TRUE_OR_POP"}
RelativeJumps == {"JUMP_FORWARD", "FOR_ITER"}

\* the pass ran its analysis (no EXTENDED_ARG in the input)
PassRan == blocks # <<>>

HasExtendedArg == \E i \in 0..(NumInstrs - 1) : InOp(i) = "EXTENDED_ARG"

\* some operand would not fit a byte once the absolute jumps are shifted
WouldOverflow ==
    \E i \in 0..(NumInstrs - 1) :
        \/ InArg(i) >= OperandLimit
        \/ /\ conditionally_assigned # {}
           /\ InOp(i) \in AbsoluteJumps
           /\ InArg(i) + Cardinality(conditionally_assigned) * CODEUNIT_SIZE
                  >= OperandLimit

Returned == pc = "done"
Optimized == Returned /\ PassRan /\ ~WouldOverflow

Stores(i, s) == InOp(i) = "STORE_FAST" /\ InArg(i) = s
Deletes(i, s) == InOp(i) = "DELETE_FAST" /\ InArg(i) = s
Loads(i, s) == InOp(i) = "LOAD_FAST" /\ InArg(i) = s
Writes(i, s) == Stores(i, s) \/ Deletes(i, s)

\* control flow between blocks: the block numbers (id + 1) that follow block k
BlockSuccs(k) == {blocks[k].succs[m] + 1 : m \in 1..Len(blocks[k].succs)}
BlockOf(i) == CHOOSE k \in 1..num_blocks : blocks[k].start <= i /\ i < blocks[k].end
EntryBlock == CHOOSE k \in 1..num_blocks : blocks[k].start = 0

Max(S) == CHOOSE x \in S : \A y \in S : y <= x

\* the STORE_FAST and DELETE_FAST of s in block k in front of index i
WritesBefore(k, i, s) ==
    {j \in blocks[k].start .. (Min(i, Min(blocks[k].end, NumInstrs)) - 1) : Writes(j, s)}

\* the slots assigned in front of index i of block k when the block is entered
\* with the slots `entered` assigned
AssignedAt(k, i, entered) ==
    {s \in AllSlots :
        IF WritesBefore(k, i, s) = {} THEN s \in entered
        ELSE Stores(Max(WritesBefore(k, i, s)), s)}

AssignedAtExit(k, entered) == AssignedAt(k, blocks[k].end, entered)

\* the pairs <<block, slots assigned on entry>> that the control-flow paths
\* from function entry produce; on function entry exactly the arguments are
\* assigned
PathStep(seen) ==
    UNION {{x} \cup {<<j, AssignedAtExit(x[1], x[2])>> : j \in BlockSuccs(x[1])} :
              x \in seen}

RECURSIVE PathSteps(_, _)
PathSteps(seen, n) == IF n = 0 THEN seen ELSE PathSteps(PathStep(seen), n - 1)

\* every step adds a pair until none is left to add
EntryPathStates ==
    PathSteps({<<EntryBlock, ArgSlots>>}, num_blocks * Pow2(num_locals(code)))

\* the blocks that `from` reaches through blocks satisfying Through
FlowStep(from, Through(_)) ==
    UNION {{k} \cup (IF Through(k) THEN BlockSuccs(k) ELSE {}) : k \in from}

RECURSIVE FlowSteps(_, _, _)
FlowSteps(from, Through(_), n) ==
    IF n = 0 THEN from ELSE FlowSteps(FlowStep(from, Through), Through, n - 1)

\* block k ends with slot s deleted: its last write of s is a DELETE_FAST
EndsDeleted(k, s) ==
    /\ WritesBefore(k, blocks[k].end, s) # {}
    /\ Deletes(Max(WritesBefore(k, blocks[k].end, s)), s)

NoWrite(k, s) == WritesBefore(k, blocks[k].end, s) = {}

\* the blocks entered on some path that leads from a DELETE_FAST of s to the
\* block's first instruction without passing a STORE_FAST of s
EnteredDeleted(s) ==
    LET Transparent(k) == NoWrite(k, s)
    IN  FlowSteps(UNION {BlockSuccs(k) : k \in {j \in 1..num_blocks : EndsDeleted(j, s)}},
                  Transparent, num_blocks)

\* some path leads from a DELETE_FAST of s to index i and passes no STORE_FAST
\* of s
DeleteReaches(s, i) ==
    LET k == BlockOf(i)
    IN  IF WritesBefore(k, i, s) # {}
        THEN Deletes(Max(WritesBefore(k, i, s)), s)
        ELSE k \in EnteredDeleted(s)

\* some path leads from a DELETE_FAST of s to index i
DeleteReachesAnyPath(s, i) ==
    LET k == BlockOf(i)
        Every(j) == TRUE
        HasDelete(j) == \E d \in WritesBefore(j, blocks[j].end, s) : Deletes(d, s)
    IN  \/ \E d \in WritesBefore(k, i, s) : Deletes(d, s)
        \/ k \in FlowSteps(UNION {BlockSuccs(j) : j \in {m \in 1..num_blocks : HasDelete(m)}},
                           Every, num_blocks)

\* the fixed-point loop has ended and no instruction is rewritten yet
ConvergedState == pc = "modify" /\ bi = 0

\* C1: dataflow soundness.  Once the fixed point is reached, a slot that the
\* entry state of a block marks definitely assigned is assigned on every
\* control-flow path from function entry (index 0, arguments assigned) to the
\* first instruction of that block.
C1_DataflowSoundness ==
    ConvergedState =>
        \A x \in EntryPathStates : \A s \in AllSlots :
            HasBit(incoming_alive(code, preds, live_out, blocks[x[1]].id), s)
                => s \in x[2]

\* C2: whenever process_one_block has been evaluated for the entry block (the
\* block that starts at index 0), the state it began with is exactly the
\* argument slots.
C2_EntryIncomingIsArgs ==
    (PassRan /\ incoming[idx_to_block(blocks)[0].id] # NotEvaluated) =>
        incoming[idx_to_block(blocks)[0].id] = ArgsAssigned(code)

\* the prelude of the returned code holds a DELETE_FAST_UNCHECKED of slot s
InPrelude(s) ==
    \E j \in 0..(PreludeLen - 1) :
        OutOp(j) = "DELETE_FAST_UNCHECKED" /\ OutArg(j) = s

\* the predecessors of block k, and the slots set in all their exit states
PredsOf(k) == preds[blocks[k].id]
InEveryPred(k, s) == \A p \in PredsOf(k) : HasBit(live_out[p], s)

\* LOAD_FAST of s at index i of block k in front of every write of s in k
HeadLoad(k, i, s) ==
    /\ blocks[k].start <= i /\ i < blocks[k].end
    /\ Loads(i, s)
    /\ WritesBefore(k, i, s) = {}

\* def foo(cond): the local is stored on one arm, and on both arms
OneArm ==
    Code(<<"LOAD_FAST", 0, "POP_JUMP_IF_FALSE", 8, "LOAD_CONST", 1,
           "STORE_FAST", 1, "LOAD_FAST", 1, "RETURN_VALUE", 0>>,
         1, 0, {}, <<0, 1>>)
BothArms ==
    Code(<<"LOAD_FAST", 0, "POP_JUMP_IF_FALSE", 10, "LOAD_CONST", 1,
           "STORE_FAST", 1, "JUMP_FORWARD", 4, "LOAD_CONST", 2,
           "STORE_FAST", 1, "LOAD_FAST", 1, "RETURN_VALUE", 0>>,
         1, 0, {}, <<0, 1>>)

\* C3: meet is bitwise AND over predecessors.  At a block with two or more
\* predecessors the state the block is entered with has a slot set exactly
\* when the converged exit state of every predecessor has it set; a read at
\* the head of such a block is rewritten to LOAD_FAST_UNCHECKED exactly in
\* that case, and otherwise stays LOAD_FAST and (for a local that is not an
\* argument) gets a prelude DELETE_FAST_UNCHECKED.  The local stored on one
\* arm is read checked behind a prelude, the local stored on both arms is
\* read unchecked without a prelude.
C3_MeetIsBitwiseAnd ==
    /\ (Returned /\ PassRan) =>
          \A k \in 1..num_blocks : Cardinality(PredsOf(k)) >= 2 =>
              \A s \in AllSlots :
                  HasBit(incoming[blocks[k].id], s) <=> InEveryPred(k, s)
    /\ Optimized =>
          \A k \in 1..num_blocks : Cardinality(PredsOf(k)) >= 2 =>
              \A s \in AllSlots : \A i \in blocks[k].start..(blocks[k].end - 1) :
                  HeadLoad(k, i, s) =>
                      IF InEveryPred(k, s)
                      THEN OutOp(PreludeLen + i) = "LOAD_FAST_UNCHECKED"
                      ELSE /\ OutOp(PreludeLen + i) = "LOAD_FAST"
                           /\ s >= NumArgs => InPrelude(s)
    /\ (Returned /\ code = OneArm) =>
          result.co_code =
              <<"DELETE_FAST_UNCHECKED", 1, "LOAD_FAST_UNCHECKED", 0,
                "POP_JUMP_IF_FALSE", 10, "LOAD_CONST", 1, "STORE_FAST", 1,
                "LOAD_FAST", 1, "RETURN_VALUE", 0>>
    /\ (Returned /\ code = BothArms) =>
          result.co_code =
              <<"LOAD_FAST_UNCHECKED", 0, "POP_JUMP_IF_FALSE", 10,
                "LOAD_CONST", 1, "STORE_FAST", 1, "JUMP_FORWARD", 4,
                "LOAD_CONST", 2, "STORE_FAST", 1, "LOAD_FAST_UNCHECKED", 1,
                "RETURN_VALUE", 0>>

\* a merge block whose predecessors disagree on a slot that is read at its
\* head, in the returned code
C3_Witness ==
    /\ Optimized
    /\ \E k \in 1..num_blocks : \E s \in AllSlots :
          /\ Cardinality(PredsOf(k)) >= 2
          /\ \E p \in PredsOf(k) : HasBit(live_out[p], s)
          /\ \E p \in PredsOf(k) : ~HasBit(live_out[p], s)
          /\ \E i \in blocks[k].start..(blocks[k].end - 1) :
                HeadLoad(k, i, s) /\ InPrelude(s)

\* the block of index i lies on a cycle of the CFG
InLoop(i) ==
    LET Every(j) == TRUE
    IN  BlockOf(i) \in FlowSteps(BlockSuccs(BlockOf(i)), Every, num_blocks)

\* def foo(x) / def foo(*, x) / def foo(*x) / def foo(**x): return x
ReturnParameter ==
    {Code(<<"LOAD_FAST", 0, "RETURN_VALUE", 0>>,
          sig.nargs, sig.nkwonly, sig.flags, <<0, 1>>) :
        sig \in {t \in TestSignatures :
                    t.nargs + t.nkwonly + Cardinality(t.flags) >= 1}}

\* def foo(cond): while True: print(cond)
LoopReadsParameter ==
    Code(<<"LOAD_GLOBAL", 0, "LOAD_FAST", 0, "CALL_FUNCTION", 1, "POP_TOP", 0,
           "JUMP_ABSOLUTE", 0, "LOAD_CONST", 0, "RETURN_VALUE", 0>>,
         1, 0, {}, <<0, 1>>)

\* C4: in the code a successful pass returns, every LOAD_FAST of an argument
\* slot that no DELETE_FAST of the slot reaches in the CFG is a
\* LOAD_FAST_UNCHECKED, and the prelude holds no instruction for the slot;
\* also when the read is inside a loop.
C4_ArgumentLoadUnchecked ==
    /\ Optimized =>
          \A s \in ArgSlots \cap AllSlots : \A i \in 0..(NumInstrs - 1) :
              (Loads(i, s) /\ ~DeleteReachesAnyPath(s, i)) =>
                  /\ OutOp(PreludeLen + i) = "LOAD_FAST_UNCHECKED"
                  /\ OutArg(PreludeLen + i) = s
                  /\ ~InPrelude(s)
    /\ (Returned /\ code \in ReturnParameter) =>
          result.co_code = <<"LOAD_FAST_UNCHECKED", 0, "RETURN_VALUE", 0>>
    /\ (Returned /\ code = LoopReadsParameter) =>
          result.co_code =
              <<"LOAD_GLOBAL", 0, "LOAD_FAST_UNCHECKED", 0, "CALL_FUNCTION", 1,
                "POP_TOP", 0, "JUMP_ABSOLUTE", 0, "LOAD_CONST", 0,
                "RETURN_VALUE", 0>>

\* an argument read inside a loop that no delete reaches, unchecked in the
\* returned code, in a function that deletes another of its arguments
C4_Witness ==
    /\ Optimized
    /\ \E s \in ArgSlots \cap AllSlots : \E i \in 0..(NumInstrs - 1) :
          /\ Loads(i, s) /\ InLoop(i) /\ ~DeleteReachesAnyPath(s, i)
          /\ OutOp(PreludeLen + i) = "LOAD_FAST_UNCHECKED"
          /\ \E t \in ArgSlots \ {s} : \E d \in 0..(NumInstrs - 1) : Deletes(d, t)

\* the blocks entered, on some path that passes no write of s, from the
\* function entry or from a block without predecessors: s is not assigned
\* there unless it is an argument
EnteredUnassigned(s) ==
    LET Transparent(k) == NoWrite(k, s)
    IN  FlowSteps({EntryBlock} \cup {k \in 1..num_blocks : PredsOf(k) = {}},
                  Transparent, num_blocks)

\* index i is reached with the local s never assigned
UnassignedReaches(s, i) ==
    /\ s \notin ArgSlots
    /\ WritesBefore(BlockOf(i), i, s) = {}
    /\ BlockOf(i) \in EnteredUnassigned(s)

\* def foo(x): del x; return x
DeleteThenRead ==
    Code(<<"DELETE_FAST", 0, "LOAD_FAST", 0, "RETURN_VALUE", 0>>,
         1, 0, {}, <<0, 1>>)
\* def foo(x): y = x; del x; return y
ReadThenDelete ==
    Code(<<"LOAD_FAST", 0, "STORE_FAST", 1, "DELETE_FAST", 0, "LOAD_FAST", 1,
           "RETURN_VALUE", 0>>,
         1, 0, {}, <<0, 1>>)
\* def foo(cond): while True: 1 + cond; del cond
LoopDeletes ==
    Code(<<"LOAD_CONST", 1, "LOAD_FAST", 0, "BINARY_ADD", 0, "POP_TOP", 0,
           "DELETE_FAST", 0, "JUMP_ABSOLUTE", 0, "LOAD_CONST", 0,
           "RETURN_VALUE", 0>>,
         1, 0, {}, <<0, 1>>)

\* C5: a LOAD_FAST of s that some CFG path reaches from a DELETE_FAST of s
\* without passing a STORE_FAST of s (back edges included) is a checked
\* LOAD_FAST in the returned code.  A LOAD_FAST that no such path reaches, and
\* that is not reached unassigned either, is a LOAD_FAST_UNCHECKED in the code
\* a successful pass returns, also when a delete of s follows it.
C5_DeleteKeepsLoadChecked ==
    /\ (Returned /\ PassRan) =>
          \A s \in AllSlots : \A i \in 0..(NumInstrs - 1) :
              (Loads(i, s) /\ DeleteReaches(s, i)) =>
                  /\ OutOp(PreludeLen + i) = "LOAD_FAST"
                  /\ OutArg(PreludeLen + i) = s
    /\ Optimized =>
          \A s \in AllSlots : \A i \in 0..(NumInstrs - 1) :
              (Loads(i, s) /\ ~DeleteReaches(s, i) /\ ~UnassignedReaches(s, i)) =>
                  OutOp(PreludeLen + i) = "LOAD_FAST_UNCHECKED"
    /\ (Returned /\ code = DeleteThenRead) => result.co_code = code.co_code
    /\ (Returned /\ code = LoopDeletes) => result.co_code = code.co_code
    /\ (Returned /\ code = ReadThenDelete) =>
          result.co_code =
              <<"LOAD_FAST_UNCHECKED", 0, "STORE_FAST", 1, "DELETE_FAST", 0,
                "LOAD_FAST_UNCHECKED", 1, "RETURN_VALUE", 0>>

\* an argument read that the delete reaches only around a back edge (the
\* delete follows the read in the code) is returned checked
C5_Witness ==
    /\ Optimized
    /\ \E s \in ArgSlots \cap AllSlots : \E i \in 0..(NumInstrs - 1) :
          /\ Loads(i, s) /\ DeleteReaches(s, i)
          /\ \A d \in 0..(NumInstrs - 1) : Deletes(d, s) => d > i
          /\ OutOp(PreludeLen + i) = "LOAD_FAST"

\* the slots that are no arguments and have a LOAD_FAST that the returned code
\* holds checked
CheckedLocals ==
    {s \in AllSlots \ ArgSlots :
        \E i \in 0..(NumInstrs - 1) :
            Loads(i, s) /\ OutOp(PreludeLen + i) = "LOAD_FAST"}

\* def foo(n): for i in range(n): pass; return i
LoopVariableAfterLoop ==
    Code(<<"LOAD_GLOBAL", 0, "LOAD_FAST", 0, "CALL_FUNCTION", 1, "GET_ITER", 0,
           "FOR_ITER", 4, "STORE_FAST", 1, "JUMP_ABSOLUTE", 8, "LOAD_FAST", 1,
           "RETURN_VALUE", 0>>,
         1, 0, {}, <<0, 1>>)

\* C6: the code a successful pass returns starts with exactly one
\* DELETE_FAST_UNCHECKED per slot of conditionally_assigned, in ascending slot
\* order, followed by all instructions of the input in their order (a
\* LOAD_FAST possibly as LOAD_FAST_UNCHECKED); conditionally_assigned is
\* exactly the set of slots that are no arguments and have a LOAD_FAST left
\* checked; an argument slot never gets a prelude instruction.
C6_SynthesizedPrelude ==
    /\ Optimized =>
          /\ PreludeLen = Cardinality(conditionally_assigned)
          /\ \A j \in 0..(PreludeLen - 1) :
                /\ OutOp(j) = "DELETE_FAST_UNCHECKED"
                /\ OutArg(j) \in conditionally_assigned
                /\ \A h \in 0..(j - 1) : OutArg(h) < OutArg(j)
          /\ \A s \in conditionally_assigned : InPrelude(s)
          /\ \A i \in 0..(NumInstrs - 1) :
                /\ \/ OutOp(PreludeLen + i) = InOp(i)
                   \/ /\ InOp(i) = "LOAD_FAST"
                      /\ OutOp(PreludeLen + i) = "LOAD_FAST_UNCHECKED"
                /\ InOp(i) \notin AbsoluteJumps =>
                      OutArg(PreludeLen + i) = InArg(i)
          /\ conditionally_assigned = CheckedLocals
          /\ \A s \in ArgSlots : ~InPrelude(s)
    /\ (Returned /\ code = LoopVariableAfterLoop) =>
          result.co_code =
              <<"DELETE_FAST_UNCHECKED", 1, "LOAD_GLOBAL", 0,
                "LOAD_FAST_UNCHECKED", 0, "CALL_FUNCTION", 1, "GET_ITER", 0,
                "FOR_ITER", 4, "STORE_FAST", 1, "JUMP_ABSOLUTE", 10,
                "LOAD_FAST", 1, "RETURN_VALUE", 0>>

\* a returned code whose prelude holds two instructions, in front of a read
\* of each of the two locals that stays checked
C6_Witness ==
    /\ Optimized
    /\ PreludeLen = 2
    /\ OutArg(0) = 0 /\ OutArg(1) = 1
    /\ \A s \in {0, 1} : \E i \in 0..(NumInstrs - 1) :
          Loads(i, s) /\ OutOp(PreludeLen + i) = "LOAD_FAST"

\* the index of the instruction a branch with operand arg at index i targets
TargetOf(op, arg, i) ==
    IF op \in RelativeJumps THEN i + 1 + arg \div CODEUNIT_SIZE
    ELSE arg \div CODEUNIT_SIZE

\* def foo(cond): if cond: x = 3 else: pass; return x
OneArmIfElse ==
    Code(<<"LOAD_FAST", 0, "POP_JUMP_IF_FALSE", 10, "LOAD_CONST", 1,
           "STORE_FAST", 1, "JUMP_FORWARD", 0, "LOAD_FAST", 1,
           "RETURN_VALUE", 0>>,
         1, 0, {}, <<0, 1>>)

\* C7: in the code a successful pass returns behind k prelude instructions,
\* the operand of every absolute jump is the input's plus k * CODEUNIT_SIZE
\* and every other operand is the input's, so every branch targets the
\* instruction it targeted in the input, now at its index plus k, and never a
\* prelude instruction; with k = 0 no operand changes.
C7_JumpTargetsPreserved ==
    /\ Optimized =>
          \A i \in 0..(NumInstrs - 1) :
              /\ InOp(i) \in AbsoluteJumps =>
                    OutArg(PreludeLen + i) = InArg(i) + PreludeLen * CODEUNIT_SIZE
              /\ InOp(i) \notin AbsoluteJumps =>
                    OutArg(PreludeLen + i) = InArg(i)
              /\ InOp(i) \in AbsoluteJumps \cup RelativeJumps =>
                    /\ OutOp(PreludeLen + i) = InOp(i)
                    /\ TargetOf(OutOp(PreludeLen + i), OutArg(PreludeLen + i),
                                PreludeLen + i)
                          = TargetOf(InOp(i), InArg(i), i) + PreludeLen
                    /\ TargetOf(OutOp(PreludeLen + i), OutArg(PreludeLen + i),
                                PreludeLen + i) >= PreludeLen
              /\ PreludeLen = 0 => OutArg(i) = InArg(i)
    /\ (Returned /\ code = OneArmIfElse) =>
          result.co_code =
              <<"DELETE_FAST_UNCHECKED", 1, "LOAD_FAST_UNCHECKED", 0,
                "POP_JUMP_IF_FALSE", 12, "LOAD_CONST", 1, "STORE_FAST", 1,
                "JUMP_FORWARD", 0, "LOAD_FAST", 1, "RETURN_VALUE", 0>>

\* a returned code with a prelude in which an absolute back edge to the first
\* instruction of the input and a relative jump both occur
C7_Witness ==
    /\ Optimized
    /\ PreludeLen >= 1
    /\ \E i \in 0..(NumInstrs - 1) :
          /\ InOp(i) \in AbsoluteJumps /\ InArg(i) = 0
          /\ OutArg(PreludeLen + i) = PreludeLen * CODEUNIT_SIZE
    /\ \E i \in 0..(NumInstrs - 1) : InOp(i) \in RelativeJumps

\* C8: bailout returns the input.  When the input holds an EXTENDED_ARG, or
\* an operand would reach OperandLimit once the absolute jumps are shifted,
\* the call returns (nothing is raised) and what it returns is the code
\* object it was given: the same bytes, no LOAD_FAST_UNCHECKED, no prelude, no
\* shifted operand.
C8_BailoutReturnsInput ==
    /\ (Returned /\ (HasExtendedArg \/ WouldOverflow)) =>
          /\ result = code
          /\ OutLen = NumInstrs
          /\ \A i \in 0..(NumInstrs - 1) :
                OutOp(i) = InOp(i) /\ OutArg(i) = InArg(i)
    /\ (pc = "start" /\ HasExtendedArg) => ENABLED BailExtendedArg

\* the pass rewrote a LOAD_FAST and collected a local for the prelude, the
\* shifted jump operand reached OperandLimit, and the input is returned
C8_Witness ==
    /\ Returned /\ PassRan /\ WouldOverflow
    /\ conditionally_assigned # {}
    /\ \E i \in 0..(NumInstrs - 1) : At(ops, i).op = "LOAD_FAST_UNCHECKED"
    /\ result = code

\* C9: the fixed-point loop ends.  The number of full passes over the blocks
\* never exceeds (number of blocks * number of slots) + 1, and a pass that
\* changed some exit state is never the pass at that limit, so the loop
\* always goes on until a pass changes nothing.
C9_FixedPointTerminates ==
    PassRan =>
        /\ passes <= num_blocks * Cardinality(AllSlots) + 1
        /\ (pc = "iterate" /\ bi = num_blocks /\ changed) =>
              /\ passes <= num_blocks * Cardinality(AllSlots)
              /\ ENABLED NextPass
        /\ (pc = "iterate" /\ bi = num_blocks /\ ~changed) => ENABLED Converged

\* the loop has ended after three full passes
C9_Witness == ConvergedState /\ passes >= 3

\* live_out[b] keeps every bit it has, for every block b
NeverLosesBit ==
    \A b \in DOMAIN live_out : BitSubset(live_out[b], live_out'[b])

\* live_out[b] gets no bit it does not have, for every block b
NeverGainsBit ==
    \A b \in DOMAIN live_out : BitSubset(live_out'[b], live_out[b])

\* C10 as stated: during the fixed-point iteration live_out[b] never loses a
\* "definitely assigned" bit once it is set.
C10_NeverLosesBit ==
    [][(pc = "iterate" /\ pc' = "iterate") => NeverLosesBit]_vars

\* C10 amended: during the fixed-point iteration and the rewriting pass,
\* live_out[b] starts with every bit set and never gets a bit back once it is
\* cleared: the successive values of live_out[b] descend in bitwise inclusion.
C10_NeverGainsBit ==
    [][(PassRan /\ pc' # "start") => NeverGainsBit]_vars

\* the iteration has cleared a bit of some block's exit state
C10_Witness ==
    /\ pc = "iterate"
    /\ passes >= 2
    /\ \E b \in DOMAIN live_out : live_out[b] # AllAssigned(code)

\* the block starts the input records: position 0, the fallthrough and the
\* target of every branch, and the position behind every return or raise that
\* lies inside the stream
RecordedStarts ==
    {0}
    \cup UNION {{i + 1, TargetOf(InOp(i), InArg(i), i)} :
                   i \in {j \in 0..(NumInstrs - 1) :
                             InOp(j) \in AbsoluteJumps \cup RelativeJumps}}
    \cup {i + 1 : i \in {j \in 0..(NumInstrs - 2) :
                            InOp(j) \in {"RETURN_VALUE", "RAISE_VARARGS"}}}

\* the positions of the slice [start, end) of block k
SliceOf(k) == {i \in 0..NumInstrs : blocks[k].start <= i /\ i < blocks[k].end}

\* C11: the block slices [start, end) built by create_blocks are pairwise
\* disjoint and their union is exactly [0, n); every block is keyed in the
\* BlockMap by its own start, no two blocks share a key, and the keys are
\* exactly the recorded block starts.
C11_CfgPartition ==
    PassRan =>
        /\ \A k \in 1..num_blocks :
              /\ blocks[k].start <= blocks[k].end
              /\ blocks[k].end <= NumInstrs
        /\ \A k, j \in 1..num_blocks : k # j => SliceOf(k) \cap SliceOf(j) = {}
        /\ UNION {SliceOf(k) : k \in 1..num_blocks} = 0..(NumInstrs - 1)
        /\ DOMAIN idx_to_block(blocks) = RecordedStarts
        /\ num_blocks = Cardinality(RecordedStarts)
        /\ \A idx \in DOMAIN idx_to_block(blocks) :
              idx_to_block(blocks)[idx].start = idx

\* three blocks: one that a branch targets, and one behind a return
C11_Witness ==
    /\ PassRan
    /\ num_blocks >= 3
    /\ \E i \in 0..(NumInstrs - 2) :
          /\ InOp(i) = "RETURN_VALUE"
          /\ \E k \in 1..num_blocks : blocks[k].start = i + 1
    /\ \E i \in 0..(NumInstrs - 1) :
          /\ InOp(i) \in AbsoluteJumps
          /\ TargetOf(InOp(i), InArg(i), i) # i + 1
          /\ \E k \in 1..num_blocks :
                blocks[k].start = TargetOf(InOp(i), InArg(i), i)

\* ------------------------------------------------------------ printf rewriter

\* visitBinOp has returned for "%" with a format string on the left
Printf == binop_pc = "done" /\ should_rewrite_printf(binop)
FormatString == binop.left.s
Right == binop.right
\* what rewrite_str_mod returns for the operands of the node
Rewrite == rewrite_str_mod(binop.left, binop.right)
Kept == binop_result = binop
IsStringLiteral(node) ==
    \/ node.node = "Str"
    \/ node.node = "Constant" /\ node.value.t = "str"
StringOf(node) == IF node.node = "Str" THEN node.s ELSE node.value.s

AcceptedConversions == {"s", "r", "a", "d", "i", "u", "x", "X", "o", "%"}

\* every "%" from position i on starts a specifier of the accepted shape:
\* "0" flags, a decimal width and one of the accepted conversion characters
RECURSIVE AcceptedFrom(_, _)
AcceptedFrom(fs, i) ==
    IF i > Len(fs) THEN TRUE
    ELSE IF fs[i] # "%" THEN AcceptedFrom(fs, i + 1)
    ELSE LET p == ParseSpecifier(fs, i + 1, {"0"})
         IN  /\ p.conv # 0
             /\ fs[p.conv] \in AcceptedConversions
             /\ AcceptedFrom(fs, p.conv + 1)

LexicallySupported == AcceptedFrom(FormatString, 1)

\* the right operand is a constant or a tuple display of constants, and
\* Python's "%" on the format string and its value does not raise
FoldSucceeds ==
    /\ \/ is_const(Right)
       \/ Right.node = "Tuple" /\ \A k \in 1..Len(Right.elts) : is_const(Right.elts[k])
    /\ eval(binop, [id \in Names |-> PyInt(0)]).ok

\* C12 as stated: a format string that ends in an unescaped "%", has a "%("
\* or has a conversion character outside s r a d i u x X o % is never
\* rewritten: rewrite_str_mod returns None and the BinOp is kept.
C12_UnsupportedNeverRewritten ==
    (Printf /\ ~LexicallySupported) => IsNone(Rewrite) /\ Kept

\* C12: rewrite_str_mod returns a JoinedStr only if every "%" starts a
\* specifier of the accepted shape.  For a format string that is not of that
\* shape it returns None and the BinOp is kept, unless the right operand is
\* constant and "%" itself succeeds on it: then the result is the folded
\* string literal.
C12_UnsupportedNotScanned ==
    (Printf /\ ~LexicallySupported) =>
        \/ IsNone(Rewrite) /\ Kept
        \/ /\ FoldSucceeds
           /\ IsStringLiteral(Rewrite)
           /\ IsStringLiteral(binop_result)
           /\ Returns(PyStr(StringOf(binop_result)))
                 = eval(binop, [id \in Names |-> PyInt(0)])

\* "%05Z" with a tuple of one name is kept
C12_Witness ==
    /\ Printf
    /\ FormatString = <<"%", "0", "5", "Z">>
    /\ Right = ast_Tuple(<<ast_Name("x")>>)
    /\ IsNone(Rewrite)
    /\ Kept

\* the specifiers from position i on that consume a value: all but those
\* whose conversion character is "%"
RECURSIVE ValueSpecifiersFrom(_, _)
ValueSpecifiersFrom(fs, i) ==
    IF i > Len(fs) THEN 0
    ELSE IF fs[i] # "%" THEN ValueSpecifiersFrom(fs, i + 1)
    ELSE LET p == ParseSpecifier(fs, i + 1, {"0"})
         IN  IF p.conv = 0 THEN 1
             ELSE (IF fs[p.conv] = "%" THEN 0 ELSE 1)
                  + ValueSpecifiersFrom(fs, p.conv + 1)

ValueSpecifiers == ValueSpecifiersFrom(FormatString, 1)

IsFormattedValue(node) == node.node = "FormattedValue"
FormattedValues(joined) == SelectSeq(joined.values, IsFormattedValue)

ConversionHelpers == {"_mod_convert_number_int", "_mod_convert_number_index"}

\* the expression a FormattedValue formats, inside its conversion call if any
Wrapped(fv) ==
    IF /\ fv.value.node = "Call"
       /\ fv.value.func = ast_Attribute(ast_Str(<<>>), fv.value.func.attr)
       /\ fv.value.func.attr \in ConversionHelpers
    THEN fv.value.args[1]
    ELSE fv.value

SingleArg(rhs) ==
    ast_Subscript(ast_Call(ast_Attribute(ast_Str(<<>>), "_mod_check_single_arg"),
                           <<rhs>>),
                  ast_Index(ast_Num(0)))

AllConstant(elts) == \A k \in 1..Len(elts) : is_const(elts[k])

\* C13: with a tuple display of m elements on the right rewrite_str_mod
\* returns a node only if the format string has m value-consuming
\* specifiers; the node is then a JoinedStr whose i-th FormattedValue wraps
\* the i-th element (or, for a tuple of constants, the folded literal).
\* With a right operand that is neither a tuple display nor a constant it
\* returns a node only if there is exactly one value-consuming specifier,
\* and its value is ''._mod_check_single_arg(rhs)[0].
C13_SpecifiersMatchArguments ==
    Printf =>
        /\ (Right.node = "Tuple" /\ ~IsNone(Rewrite)) =>
              /\ ValueSpecifiers = Len(Right.elts)
              /\ \/ /\ Rewrite.node = "JoinedStr"
                    /\ Len(FormattedValues(Rewrite)) = Len(Right.elts)
                    /\ \A k \in 1..Len(Right.elts) :
                          Wrapped(FormattedValues(Rewrite)[k]) = Right.elts[k]
                 \/ AllConstant(Right.elts) /\ IsStringLiteral(Rewrite)
        /\ (Right.node = "Tuple" /\ ValueSpecifiers # Len(Right.elts)) =>
              IsNone(Rewrite) /\ Kept
        /\ (Right.node = "Name" /\ ~IsNone(Rewrite)) =>
              /\ ValueSpecifiers = 1
              /\ Rewrite.node = "JoinedStr"
              /\ Len(FormattedValues(Rewrite)) = 1
              /\ Wrapped(FormattedValues(Rewrite)[1]) = SingleArg(Right)
        /\ (Right.node = "Name" /\ ValueSpecifiers # 1) =>
              IsNone(Rewrite) /\ Kept
        /\ (Right.node \in {"Tuple", "Name"} /\ ~IsNone(Rewrite)) =>
              binop_result = Rewrite

\* "%d%s" % (y, x): two FormattedValues, of y and of x
C13_Witness ==
    /\ Printf
    /\ FormatString = <<"%", "d", "%", "s">>
    /\ Right = ast_Tuple(<<ast_Name("y"), ast_Name("x")>>)
    /\ binop_result.node = "JoinedStr"
    /\ Len(FormattedValues(binop_result)) = 2
    /\ Wrapped(FormattedValues(binop_result)[1]) = ast_Name("y")
    /\ Wrapped(FormattedValues(binop_result)[2]) = ast_Name("x")

\* the node the claim gives a specifier with the flags-and-width text fw and
\* the conversion character ch, on the value
SpecifierNode(ch, fw, has_width, value) ==
    IF ch \in {"s", "r", "a"}
    THEN ast_FormattedValue(
             value,
             IF ch = "s" THEN 115 ELSE IF ch = "r" THEN 114 ELSE 97,
             IF has_width THEN ast_Str(<<">">> \o fw)
             ELSE IF fw = <<>> THEN None ELSE ast_Str(fw))
    ELSE IF ch \in {"d", "i", "u"}
    THEN ast_FormattedValue(
             ast_Call(ast_Attribute(ast_Str(<<>>), "_mod_convert_number_int"),
                      <<value>>),
             -1,
             IF fw = <<>> THEN None ELSE ast_Str(fw))
    ELSE ast_FormattedValue(
             ast_Call(ast_Attribute(ast_Str(<<>>), "_mod_convert_number_index"),
                      <<value>>),
             -1,
             ast_Str(fw \o <<ch>>))

\* the k-th value of the right operand
ValueOf(k) == IF Right.node = "Tuple" THEN Right.elts[k] ELSE SingleArg(Right)

\* the nodes of a supported format string from position i on, one per
\* literal character and per specifier; k counts the values
RECURSIVE ExpectedFrom(_, _, _)
ExpectedFrom(fs, i, k) ==
    IF i > Len(fs) THEN <<>>
    ELSE IF fs[i] # "%" THEN <<ast_Str(<<fs[i]>>)>> \o ExpectedFrom(fs, i + 1, k)
    ELSE LET p == ParseSpecifier(fs, i + 1, {"0"})
             fw == SubSeq(fs, i + 1, p.conv - 1)
         IN  IF fs[p.conv] = "%"
             THEN <<ast_Str(<<"%">>)>> \o ExpectedFrom(fs, p.conv + 1, k)
             ELSE <<SpecifierNode(fs[p.conv], fw, p.has_width, ValueOf(k))>>
                  \o ExpectedFrom(fs, p.conv + 1, k + 1)

\* adjacent literal segments joined into one
RECURSIVE Merged(_)
Merged(values) ==
    IF Len(values) <= 1 THEN values
    ELSE IF values[1].node = "Str" /\ values[2].node = "Str"
    THEN Merged(<<ast_Str(values[1].s \o values[2].s)>> \o Tail(Tail(values)))
    ELSE <<values[1]>> \o Merged(Tail(values))

\* C14: a returned JoinedStr holds, in the order of the format string, the
\* FormattedValue of each specifier (s r a: the value with conversion
\* str/repr/ascii and spec '>' + flags-and-width when there is a width, no
\* spec without flags and width; d i u: _mod_convert_number_int(value) with
\* the flags-and-width as spec, absent if empty; x X o:
\* _mod_convert_number_index(value) with flags-and-width + letter) and the
\* literal text between them with a "%" for each "%%", in segments none of
\* which is empty.
C14_SpecifierToNode ==
    (Printf /\ Rewrite.node = "JoinedStr") =>
        /\ binop_result = Rewrite
        /\ \A k \in 1..Len(binop_result.values) :
              /\ binop_result.values[k].node \in {"Str", "FormattedValue"}
              /\ binop_result.values[k].node = "Str" => binop_result.values[k].s # <<>>
        /\ Merged(binop_result.values) = Merged(ExpectedFrom(FormatString, 1, 1))

\* "%5s%05x" % (x, y)
C14_Witness ==
    /\ Printf
    /\ FormatString = <<"%", "5", "s", "%", "0", "5", "x">>
    /\ Right = ast_Tuple(<<ast_Name("x"), ast_Name("y")>>)
    /\ binop_result =
          ast_JoinedStr(<<
              ast_FormattedValue(ast_Name("x"), 115, ast_Str(<<">", "5">>)),
              ast_FormattedValue(
                  ast_Call(ast_Attribute(ast_Str(<<>>), "_mod_convert_number_index"),
                           <<ast_Name("y")>>),
                  -1, ast_Str(<<"0", "5", "x">>))>>)

\* the names take the values of env: the original expression and the
\* rewritten one return the same value or both raise
SameEvaluation(env) == eval(binop_result, env) = eval(binop, env)

\* C15: when the rewriter accepts a format string and its arguments (it
\* returns a JoinedStr), evaluating the rewritten expression gives the
\* string the original "%" gives, for every value of the names; this
\* includes a "0" flag with a width on %s, %r and %a.
C15_RewriteEquivalence ==
    (Printf /\ binop_result.node = "JoinedStr") =>
        \A env \in Environments : SameEvaluation(env)

\* the right operand is a constant, or a tuple display of constants
ConstantRight ==
    \/ is_const(Right)
    \/ Right.node = "Tuple" /\ AllConstant(Right.elts)

RightValue ==
    IF is_const(Right) THEN get_const_value(Right)
    ELSE PyTuple(const_values(Right.elts))

\* format_string % value, evaluated by Python
Interpolated == str_mod(FormatString, RightValue)

\* C16: with a constant right operand (or a tuple of constants)
\* rewrite_str_mod returns the string literal format_string % value,
\* whatever the specifiers are, and visitBinOp returns that literal.  When
\* the evaluation raises, rewrite_str_mod returns what the specifier scan
\* returns and visitBinOp returns that JoinedStr or the unchanged node; a
\* constant operation of visitBinOp that raises leaves the node unchanged.
C16_ConstantFoldingFirst ==
    /\ (Printf /\ ConstantRight /\ Interpolated.ok) =>
          /\ Rewrite = ast_Str(Interpolated.v.s)
          /\ IsStringLiteral(binop_result)
          /\ StringOf(binop_result) = Interpolated.v.s
    /\ (Printf /\ ConstantRight /\ ~Interpolated.ok) =>
          /\ Rewrite = scan_str_mod(FormatString, Right)
          /\ \/ binop_result.node = "JoinedStr" /\ binop_result = Rewrite
             \/ IsNone(Rewrite) /\ Kept
    /\ (/\ binop_pc = "done"
        /\ ~should_rewrite_printf(binop)
        /\ is_const(binop.left)
        /\ is_const(Right)) =>
          IF eval(binop, [id \in Names |-> PyInt(0)]).ok
          THEN binop_result
                  = ast_Constant(eval(binop, [id \in Names |-> PyInt(0)]).v)
          ELSE Kept

\* "%d" % "ab" raises TypeError when folded; the scan rewrites it
C16_Witness ==
    /\ Printf
    /\ FormatString = <<"%", "d">>
    /\ Right = ast_Constant(PyStr(<<"a", "b">>))
    /\ ~Interpolated.ok
    /\ binop_result.node = "JoinedStr"

\* ------------------------------------------------------------ SSA claims

IsDiamond == ssa_preds \in {Diamond(2, 3), Diamond(3, 2)}
IsLoop == ssa_preds \in {Loop(1, 3), Loop(3, 1)}

\* the steps of the trace that are an operation on x in a block
Steps(opnames, b) ==
    {k \in 1..Len(trace) :
        /\ trace[k].op \in opnames
        /\ trace[k].variable = "x"
        /\ trace[k].block = b}

\* the current definition of x in block b, NoDefinition when there is none
NoDefinition == -1
CurrentDef(b) ==
    IF "x" \in DOMAIN current_def /\ b \in DOMAIN current_def["x"]
    THEN current_def["x"][b]
    ELSE NoDefinition

Phis == {k \in 1..Len(ssa_instrs) : ssa_instrs[k].opname = "Phi"}
Undefs == {k \in 1..Len(ssa_instrs) : ssa_instrs[k].opname = "Undef"}

\* x is defined in block b and was never deleted there
WrittenIn(b) ==
    /\ Steps({"STORE_FAST"}, b) # {}
    /\ Steps({"DELETE_FAST"}, b) = {}

Untouched(b) == Steps({"STORE_FAST", "DELETE_FAST"}, b) = {}

\* the diamond 1 -> {2, 3} -> 4 with x written differently on both arms,
\* read in the merge block and not written there
DiamondRead ==
    /\ IsDiamond
    /\ WrittenIn(2)
    /\ WrittenIn(3)
    /\ CurrentDef(2) # CurrentDef(3)
    /\ Untouched(4)
    /\ Steps({"LOAD_FAST"}, 4) # {}

\* C17: in the diamond, reading in the merge block a variable written with
\* different values on the two arms creates exactly one Phi, recorded for
\* (variable, merge); its operands are the values written in the two
\* predecessors, in the iteration order of the predecessor set; every read
\* in the merge block returns that Phi.
C17_DiamondPhi ==
    DiamondRead =>
        /\ Cardinality(Phis) = 1
        /\ \A p \in Phis :
              /\ CurrentDef(4) = p - 1
              /\ ssa_instrs[p].block = 4
              /\ ssa_instrs[p].args = <<CurrentDef(ssa_preds[4][1]),
                                        CurrentDef(ssa_preds[4][2])>>
              /\ \A k \in Steps({"LOAD_FAST"}, 4) :
                    trace[k].error = "none" /\ trace[k].value = p - 1

\* two reads in the merge block of the diamond whose predecessor set
\* iterates as 3, 2
C17_Witness ==
    /\ DiamondRead
    /\ ssa_preds = Diamond(3, 2)
    /\ Cardinality(Steps({"LOAD_FAST"}, 4)) = 2
    /\ Cardinality(Phis) = 1
    /\ \A p \in Phis : ssa_instrs[p].args = <<CurrentDef(3), CurrentDef(2)>>

\* the loop 1 -> 2 -> 3 -> 2 with x defined in the entry, left alone in the
\* header, and read in the body before the body writes it
FirstInBody == CHOOSE k \in Steps({"LOAD_FAST", "STORE_FAST", "DELETE_FAST"}, 3) :
                  \A j \in Steps({"LOAD_FAST", "STORE_FAST", "DELETE_FAST"}, 3) : k <= j
LoopRead ==
    /\ IsLoop
    /\ WrittenIn(1)
    /\ Untouched(2)
    /\ Steps({"LOAD_FAST"}, 3) # {}
    /\ trace[FirstInBody].op = "LOAD_FAST"

\* the operand of the header's phi p that belongs to predecessor pred: the
\* phi itself through the back edge, the entry's definition otherwise
LoopOperand(p, pred) == IF pred = 3 THEN p - 1 ELSE CurrentDef(pred)

\* C18: in the loop with x defined in the entry and read (then written) in
\* the body, every read terminates without an error; one Phi is created,
\* it is the current definition of (x, header), and its operand for the
\* back edge is that same Phi, so the header was not entered a second time.
C18_LoopPhiRecordedFirst ==
    LoopRead =>
        /\ ssa_pc \notin {"RecursionError", "AssertionError"}
        /\ \A k \in Steps({"LOAD_FAST"}, 2) \cup Steps({"LOAD_FAST"}, 3) :
              trace[k].error = "none"
        /\ Cardinality(Phis) = 1
        /\ \A p \in Phis :
              /\ CurrentDef(2) = p - 1
              /\ trace[FirstInBody].value = p - 1
              /\ ssa_instrs[p].args = <<LoopOperand(p, ssa_preds[2][1]),
                                        LoopOperand(p, ssa_preds[2][2])>>

\* the body of the loop whose header iterates its predecessors as 3, 1
\* reads x and then writes it
C18_Witness ==
    /\ LoopRead
    /\ ssa_preds = Loop(3, 1)
    /\ Steps({"STORE_FAST"}, 3) # {}
    /\ Cardinality(Phis) = 1
    /\ \A p \in Phis : ssa_instrs[p].args = <<p - 1, CurrentDef(1)>>

\* the reads of x that found no definition on the way to the entry block
FailedReads ==
    {k \in 1..Len(trace) :
        trace[k].op = "LOAD_FAST" /\ trace[k].error = "AssertionError"}

\* x has a definition in some block but none in the entry
DefinedElsewhere ==
    /\ "x" \in DOMAIN current_def
    /\ DOMAIN current_def["x"] # {}
    /\ entry \notin DOMAIN current_def["x"]

\* C19: a read of a variable that reaches the entry block without finding
\* a definition does not raise: no read ends in an error, and a read that
\* found no definition yields an Undef emitted in the entry block, also
\* when the variable is defined only in some other block.
C19_UseBeforeDefinitionIsUndef ==
    /\ FailedReads = {}
    /\ ssa_pc # "AssertionError"
    /\ \A k \in 1..Len(trace) :
          (trace[k].op = "LOAD_FAST" /\ trace[k].error = "none") =>
              \/ ssa_instrs[trace[k].value + 1].opname # "Undef"
              \/ ssa_instrs[trace[k].value + 1].block = entry

\* ------------------------------------------------------------ renaming claims

\* the renamers constructed for a scope, and the number of them constructed
\* before the r-th for the same scope
RenamersOf(scope) == {r \in 1..Len(renamers) : renamers[r].scope = scope}
RoundOf(r) == Cardinality({q \in RenamersOf(renamers[r].scope) : q < r})

ExpectedPrefix(k) ==
    IF k = 0 THEN <<"_", "g", "e", "n", "$">>
    ELSE <<"_", "g", "e", "n">> \o Digits(k, 10, DigitChars) \o <<"$">>

\* C20: the k-th renamer constructed for a scope has the prefix "_gen$" for
\* k = 0 and "_gen{k}$" for k >= 1; the scope's attribute is set by the
\* first construction and counts one per construction of that scope alone;
\* two renamers of one scope never share a prefix.
C20_UniquePrefixPerScope ==
    /\ \A r \in 1..Len(renamers) : renamers[r].prefix = ExpectedPrefix(RoundOf(r))
    /\ \A scope \in Scopes :
          /\ scope \in DOMAIN last_comprehension_rename_index
                <=> RenamersOf(scope) # {}
          /\ getattr(scope) = Cardinality(RenamersOf(scope)) - 1
    /\ \A r \in 1..Len(renamers), q \in 1..Len(renamers) :
          (r # q /\ renamers[r].scope = renamers[q].scope) =>
              renamers[r].prefix # renamers[q].prefix

\* two renamers for scope 1 around one for scope 2
C20_Witness ==
    /\ Len(renamers) = 3
    /\ <<renamers[1].scope, renamers[2].scope, renamers[3].scope>> = <<1, 2, 1>>
    /\ renamers[1].prefix = <<"_", "g", "e", "n", "$">>
    /\ renamers[2].prefix = <<"_", "g", "e", "n", "$">>
    /\ renamers[3].prefix = <<"_", "g", "e", "n", "1", "$">>
    /\ last_comprehension_rename_index[1] = 1
    /\ last_comprehension_rename_index[2] = 0

\* ------------------------------------------------------------ pass claims

\* the unit reads the name locals: some LOAD_GLOBAL or LOAD_NAME refers to it
UsesLocals ==
    \E i \in 0..(NumInstrs - 1) :
        /\ InOp(i) \in {"LOAD_GLOBAL", "LOAD_NAME"}
        /\ InArg(i) < Len(code.co_names)
        /\ code.co_names[InArg(i) + 1] = "locals"

\* C21: when the unit uses locals() the pass returns its input: every
\* LOAD_FAST stays checked and no prelude is added.
C21_LocalsBailout ==
    (pc = "done" /\ UsesLocals) => result = code

\* the call process_one_block(block, modify=True) the next step makes
ModifyCall ==
    process_one_block(code, preds, blocks[bi + 1], TRUE,
                      ops, live_out, conditionally_assigned)

\* C22: every call of the final pass returns False and leaves live_out as
\* the fixed-point loop left it, so the entry state each block's loads are
\* decided against is the one of the converged live_out.
C22_ModifyKeepsConverged ==
    [][(pc = "modify" /\ bi < num_blocks) =>
          /\ ModifyCall.ret = FALSE
          /\ live_out' = live_out
          /\ incoming'[bi] = incoming_alive(code, preds, live_out', bi)]_vars

\* the final pass has run over three blocks or more whose converged exit
\* states differ, and it has rewritten a load
C22_Witness ==
    /\ pc = "done"
    /\ num_blocks >= 3
    /\ \E a \in DOMAIN live_out, b \in DOMAIN live_out : live_out[a] # live_out[b]
    /\ \E i \in 0..(NumInstrs - 1) : At(ops, i).op = "LOAD_FAST_UNCHECKED"
    /\ conditionally_assigned # {}

\* the loads the final pass has rewritten
RewrittenLoads(instrs) ==
    {i \in 0..(Len(instrs) - 1) : At(instrs, i).op = "LOAD_FAST_UNCHECKED"}

\* C23: whatever order every pass visits the blocks in, the converged
\* live_out is the one the iteration in block order converges to, and the
\* final pass rewrites the same loads and collects the same
\* conditionally_assigned, so the same code is returned.
C23_OrderIndependentFixedPoint ==
    /\ (pc = "modify" /\ bi = 0) =>
          live_out = analysis(code).converged.live_out
    /\ pc = "done" =>
          LET modified == analysis(code).modified
          IN  /\ live_out = modified.live_out
              /\ RewrittenLoads(ops) = RewrittenLoads(modified.ops)
              /\ conditionally_assigned = modified.cond
              /\ result = emit_result(code, emit(modified.ops, modified.cond))

\* a run that took more passes than the iteration in block order, cleared
\* a bit of an exit state and rewrote a load
C23_Witness ==
    /\ pc = "done"
    /\ passes > analysis(code).converged.passes
    /\ \E b \in DOMAIN live_out : live_out[b] # AllAssigned(code)
    /\ RewrittenLoads(ops) # {}

\* the position BytecodeSlice.last() reads for block k
LastOf(k) == blocks[k].end - 1

\* the successor positions the claim gives for the instruction at position i
ExpectedSuccessors(i) ==
    IF InOp(i) \in {"JUMP_ABSOLUTE", "JUMP_FORWARD"}
    THEN <<TargetOf(InOp(i), InArg(i), i)>>
    ELSE IF InOp(i) \in AbsoluteJumps \cup RelativeJumps
    THEN <<i + 1, TargetOf(InOp(i), InArg(i), i)>>
    ELSE IF InOp(i) \in {"RETURN_VALUE", "RAISE_VARARGS"}
    THEN <<>>
    ELSE <<i + 1>>

InStream(i) == i < NumInstrs

\* the ids of the blocks that start at the positions of a sequence
RECURSIVE IdsAt(_)
IdsAt(positions) ==
    IF positions = <<>> THEN <<>>
    ELSE <<(CHOOSE k \in 1..num_blocks : blocks[k].start = Head(positions)) - 1>>
             \o IdsAt(Tail(positions))

SuccIds(k) == {blocks[k].succs[m] : m \in 1..Len(blocks[k].succs)}

\* C24: the successors of a block are those of the instruction
\* BytecodeSlice.last() returns for it: the target of an unconditional
\* jump, fallthrough then target of a conditional branch, none behind a
\* return or raise, the next position otherwise, with positions at or
\* beyond the stream length dropped; and A is a predecessor of B exactly
\* when B is a successor of A.
C24_SuccessorsAndEdgeSymmetry ==
    PassRan =>
        /\ \A k \in 1..num_blocks :
              LET kept == SelectSeq(ExpectedSuccessors(LastOf(k)), InStream)
              IN  /\ \A m \in 1..Len(kept) :
                        \E j \in 1..num_blocks : blocks[j].start = kept[m]
                  /\ blocks[k].succs = IdsAt(kept)
        /\ \A a \in 1..num_blocks, b \in 1..num_blocks :
              /\ blocks[a].id \in blocks[b].preds <=> blocks[b].id \in SuccIds(a)
              /\ blocks[a].id \in preds[blocks[b].id] <=> blocks[b].id \in SuccIds(a)

\* a conditional branch with two different successors, and a conditional
\* branch at the end of the stream whose fallthrough is dropped
C24_Witness ==
    /\ PassRan
    /\ \E k \in 1..num_blocks :
          /\ InOp(LastOf(k)) \in {"POP_JUMP_IF_FALSE", "FOR_ITER"}
          /\ Len(blocks[k].succs) = 2
          /\ blocks[k].succs[1] # blocks[k].succs[2]
          /\ blocks[blocks[k].succs[1] + 1].start = LastOf(k) + 1
    /\ \E k \in 1..num_blocks :
          /\ blocks[k].start < blocks[k].end
          /\ LastOf(k) = NumInstrs - 1
          /\ InOp(LastOf(k)) = "POP_JUMP_IF_FALSE"
          /\ Len(blocks[k].succs) = 1
          /\ blocks[blocks[k].succs[1] + 1].preds # {}

\* C30: every block of create_blocks holds an instruction (start < end <=
\* number of instructions), and the instruction its successors are computed
\* from lies in its own slice, also when the stream ends in a branch.
C30_BlocksNonEmpty ==
    PassRan =>
        \A k \in 1..num_blocks :
            /\ blocks[k].start < blocks[k].end
            /\ blocks[k].end <= NumInstrs
            /\ LastOf(k) \in SliceOf(k)

\* C29: the code a pass that did not bail out returns is the input with a
\* prelude of DELETE_FAST_UNCHECKED in front; behind the prelude stand the
\* instructions of the input in their order, each with its opcode, except
\* that a LOAD_FAST may have become LOAD_FAST_UNCHECKED, and with its
\* operand, except that an absolute jump's grew by the size of the prelude;
\* no other field of the code object differs.
C29_FrameOfOptimizeLoadFast ==
    Optimized =>
        /\ result = [code EXCEPT !.co_code = result.co_code]
        /\ Len(result.co_code) % CODEUNIT_SIZE = 0
        /\ PreludeLen = Cardinality(conditionally_assigned)
        /\ \A j \in 0..(PreludeLen - 1) : OutOp(j) = "DELETE_FAST_UNCHECKED"
        /\ \A i \in 0..(NumInstrs - 1) :
              /\ \/ OutOp(PreludeLen + i) = InOp(i)
                 \/ /\ InOp(i) = "LOAD_FAST"
                    /\ OutOp(PreludeLen + i) = "LOAD_FAST_UNCHECKED"
              /\ OutArg(PreludeLen + i) =
                    IF InOp(i) \in AbsoluteJumps
                    THEN InArg(i) + PreludeLen * CODEUNIT_SIZE
                    ELSE InArg(i)

\* def foo(n): for i in range(n): pass; return i, returned with a prelude,
\* one load rewritten, the absolute jump shifted and FOR_ITER as it was
C29_Witness ==
    /\ Optimized
    /\ code = LoopVariableAfterLoop
    /\ result.co_code =
          <<"DELETE_FAST_UNCHECKED", 1, "LOAD_GLOBAL", 0, "LOAD_FAST_UNCHECKED", 0,
            "CALL_FUNCTION", 1, "GET_ITER", 0, "FOR_ITER", 4, "STORE_FAST", 1,
            "JUMP_ABSOLUTE", 10, "LOAD_FAST", 1, "RETURN_VALUE", 0>>

\* ------------------------------------------------------------ SSA builder claims

\* the records (variable, block, value) of a current_def
Records(cd) ==
    UNION {{<<v, b, cd[v][b]>> : b \in DOMAIN cd[v]} : v \in DOMAIN cd}

\* the step interprets an instruction named opname
StepOf(opname) ==
    /\ Len(trace') = Len(trace) + 1
    /\ trace'[Len(trace')].op = opname

\* the block the interpreter is in holds no record of the variable
NoLocalRecord(variable) ==
    /\ variable \in DOMAIN current_def
    /\ ssa_block \notin DOMAIN current_def[variable]

\* C25: once the interpreter is in a block, delete_variable(var, block)
\* does not raise, whether or not the
\* block holds a record of the variable; it removes the record of (var,
\* block) and keeps every other record; a read in a block without a record
\* is answered by the lookup in the predecessors.
C25_DeleteRemovesOnlyItsRecord ==
    [][/\ (StepOf("DELETE_FAST") /\ ssa_block # NoBlock) =>
             /\ trace'[Len(trace')].error = "none"
             /\ ssa_pc' = "run"
             /\ Records(current_def') =
                   {r \in Records(current_def) :
                       ~(r[1] = trace'[Len(trace')].variable /\ r[2] = ssa_block)}
       /\ (StepOf("LOAD_FAST") /\ NoLocalRecord(trace'[Len(trace')].variable)) =>
             LET r == read_variable_recursive(
                          [instrs |-> ssa_instrs, current_def |-> current_def],
                          trace'[Len(trace')].variable, ssa_block, 2)
             IN  /\ trace'[Len(trace')].error = r.error
                 /\ trace'[Len(trace')].value = r.value]_vars

NoDeletes == \A k \in 1..Len(trace) : trace[k].op # "DELETE_FAST"

\* the blocks with two predecessors or more (one at most in every flow graph)
MergeBlocks == {b \in 1..Len(ssa_preds) : Len(ssa_preds[b]) >= 2}

\* what the lookup of x through predecessor pred of the merge block gave the
\* phi p. Around the loop it is the phi itself when the loop body held no
\* record at the time: the phi was made by a read in the header or in the
\* body, or the body never wrote x. Otherwise it is the record at the end of
\* the predecessor, the entry's when a diamond arm has none.
OperandThrough(p, pred) ==
    IF IsLoop /\ pred = 3
          /\ (ssa_instrs[p].block \in {2, 3} \/ CurrentDef(3) = NoDefinition)
    THEN p - 1
    ELSE IF CurrentDef(pred) # NoDefinition THEN CurrentDef(pred)
    ELSE CurrentDef(entry)

\* every phi has one operand per predecessor of the merge block, in order
PhisComplete ==
    \A p \in Phis : \A b \in MergeBlocks :
        /\ Len(ssa_instrs[p].args) = Len(ssa_preds[b])
        /\ \A k \in 1..Len(ssa_preds[b]) :
              ssa_instrs[p].args[k] = OperandThrough(p, ssa_preds[b][k])

\* C26: a read in a block that holds a record returns it and creates
\* nothing; a read in a block with one predecessor returns what the read in
\* the predecessor returns and records no phi for the block; without
\* deletes there is at most one phi per (variable, block), none without a
\* block of several predecessors; after a read has returned every phi has
\* one operand per predecessor of its block, in the order of the
\* predecessors.
C26_PhiOnlyAtMergeAndComplete ==
    [][/\ (StepOf("LOAD_FAST") /\ CurrentDef(ssa_block) # NoDefinition) =>
             /\ trace'[Len(trace')].error = "none"
             /\ trace'[Len(trace')].value = CurrentDef(ssa_block)
             /\ ssa_instrs' = ssa_instrs
             /\ current_def' = current_def
       /\ (StepOf("LOAD_FAST") /\ NoLocalRecord("x")
               /\ Len(ssa_preds[ssa_block]) = 1) =>
             LET r == read_variable(
                          [instrs |-> ssa_instrs, current_def |-> current_def],
                          "x", ssa_preds[ssa_block][1], 3)
             IN  /\ trace'[Len(trace')].error = r.error
                 /\ trace'[Len(trace')].value = r.value
                 /\ ssa_instrs' = r.st.instrs
                 /\ ssa_block \notin DOMAIN current_def'["x"]
       /\ (StepOf("LOAD_FAST") /\ NoDeletes' /\ ssa_pc' = "run") =>
             /\ Cardinality(Phis') <= Cardinality(MergeBlocks)
             /\ PhisComplete']_vars

\* in the diamond x is written in the entry only; a read on an arm made no
\* phi, and two reads in the merge block made one phi with the entry's
\* definition for both predecessors
C26_Witness ==
    /\ IsDiamond
    /\ ssa_pc = "run"
    /\ NoDeletes
    /\ WrittenIn(1) /\ Untouched(2) /\ Untouched(3) /\ Untouched(4)
    /\ Steps({"LOAD_FAST"}, 2) # {}
    /\ Cardinality(Steps({"LOAD_FAST"}, 4)) = 2
    /\ Cardinality(Phis) = 1
    /\ \A p \in Phis :
          /\ ssa_instrs[p].args = <<CurrentDef(1), CurrentDef(1)>>
          /\ \A k \in Steps({"LOAD_FAST"}, 2) : trace[k].value = CurrentDef(1)
          /\ \A k \in Steps({"LOAD_FAST"}, 4) : trace[k].value = p - 1

\* the definition of x at the exit of predecessor pred of the merge block
\* once every block is translated: the record of the predecessor, and
\* without one what flows into it, the phi p around the loop and the
\* entry's record on a diamond arm
DefAtExit(p, pred) ==
    IF CurrentDef(pred) # NoDefinition THEN CurrentDef(pred)
    ELSE IF IsLoop /\ pred = 3 THEN p - 1
    ELSE CurrentDef(entry)

\* C27: once the interpreter has gone through the blocks in order and is in
\* the last one, every operand of a phi is the definition of the variable
\* at the exit of the corresponding predecessor, a loop body that writes
\* the variable after the read that made the phi included.
C27_PhiOperandsAreFinalDefinitions ==
    (ssa_pc = "run" /\ NoDeletes /\ ssa_block = Len(ssa_preds)) =>
        \A p \in Phis : \A b \in MergeBlocks :
            /\ Len(ssa_instrs[p].args) = Len(ssa_preds[b])
            /\ \A k \in 1..Len(ssa_preds[b]) :
                  ssa_instrs[p].args[k] = DefAtExit(p, ssa_preds[b][k])

\* C28: every phi sits in the instruction list of the block it merges for,
\* the block with several predecessors, whichever block the interpreter was
\* in when the read made it; a block with fewer than two predecessors holds
\* no phi.
C28_PhiEmittedIntoMergeBlock ==
    \A p \in Phis :
        /\ ssa_instrs[p].block \in MergeBlocks
        /\ Len(ssa_preds[ssa_instrs[p].block]) >= 2

====
